---------------------------- MODULE Spec2Model ----------------------------
(***************************************************************************)
(* Model of the Midgard bundle encoder, src/panfrost/midgard/midgard_emit.c *)
(*                                                                         *)
(* The encoder is single threaded.  Its helpers are pure functions of the  *)
(* instruction, the enclosing bundle/block and the block layout; they are  *)
(* modelled as operators that compute what the C code computes.  Each      *)
(* specification below draws the arguments of one entry point from bounded *)
(* sets and applies it.  assert() is modelled as it behaves in a build     *)
(* with assertions enabled: the call stops and produces nothing further.   *)
(***************************************************************************)
EXTENDS Integers, Sequences, FiniteSets, TLC

VARIABLES ctx,       \* compiler_context: quirks, stage
          blocks,    \* the blocks of ctx: block name -> quadword_count
          block,     \* name of the block being emitted (block->base.name)
          bundles,   \* block->bundles of the block being emitted
          bundle,    \* the bundle being emitted: its tag, its index in bundles
          ins,       \* the instruction as handed to the encoder
          out,       \* what the call computed / wrote back into the instruction
          emission,  \* the emission buffer (struct util_dynarray), a sequence of words
          pc         \* "start", "done", or "assert" after a failed assert()

vars == <<ctx, blocks, block, bundles, bundle, ins, out, emission, pc>>

-----------------------------------------------------------------------------
(* Bounds of the model *)

NumBlocks == 3      \* blocks in the program, named 0 .. NumBlocks-1
MaxQuad == 2        \* largest quadword_count of a block
MaxBundles == 5     \* bundles in the block holding a texture instruction

-----------------------------------------------------------------------------
(* Bit arithmetic of C on unsigned values *)

Pow2(n) == 2 ^ n

Shr(x, n) == x \div Pow2(n)

Shl(x, n) == x * Pow2(n)

Bit(x, i) == (x \div Pow2(i)) % 2

RECURSIVE BitAnd(_, _)
BitAnd(a, b) ==
    IF a = 0 \/ b = 0 THEN 0
    ELSE (a % 2) * (b % 2) + 2 * BitAnd(a \div 2, b \div 2)

RECURSIVE BitOr(_, _)
BitOr(a, b) ==
    IF a = 0 THEN b
    ELSE IF b = 0 THEN a
    ELSE (IF a % 2 = 1 \/ b % 2 = 1 THEN 1 ELSE 0) + 2 * BitOr(a \div 2, b \div 2)

-----------------------------------------------------------------------------
(* Hardware tags and enum values (midgard.h) *)

TAG_TEXTURE_4_VTX == 2
TAG_TEXTURE_4 == 3
TAG_TEXTURE_4_BARRIER == 4
TAG_LOAD_STORE_4 == 5
TAG_ALU_4 == 8
TAG_ALU_8 == 9
TAG_ALU_12 == 10
TAG_ALU_16 == 11

IS_ALU(tag) == tag >= TAG_ALU_4

midgard_condition_false == 1
midgard_condition_true == 2
midgard_condition_always == 3

NoValue == [none |-> TRUE]

MIDGARD_NO_OOO == 1

\* A fragment shader on hardware without quirks
DefaultContext == [quirks |-> 0, stage |-> "MESA_SHADER_FRAGMENT"]

-----------------------------------------------------------------------------
(* emit_branch *)

TargetTypes == {"TARGET_GOTO", "TARGET_DISCARD", "TARGET_TILEBUF_WAIT"}

BranchUnits == {"ALU_ENAB_BR_COMPACT", "ALU_ENAB_BRANCH"}

BlockNames == 0 .. (NumBlocks - 1)

\* for (idx = block->base.name+1; idx < target_number; ++idx) quadword_offset += ...
RECURSIVE jump_forward(_, _, _)
jump_forward(blks, idx, target_number) ==
    IF idx < target_number
    THEN blks[idx] + jump_forward(blks, idx + 1, target_number)
    ELSE 0

\* for (idx = block->base.name; idx >= target_number; --idx) quadword_offset -= ...
RECURSIVE jump_backward(_, _, _)
jump_backward(blks, idx, target_number) ==
    IF idx >= target_number
    THEN jump_backward(blks, idx - 1, target_number) - blks[idx]
    ELSE 0

\* quadword_offset with the backward loop starting below the current block
quadword_offset_skips_current(blks, name, target_type, target_number) ==
    IF target_type = "TARGET_DISCARD" THEN 2
    ELSE IF target_type = "TARGET_TILEBUF_WAIT" THEN -1
    ELSE IF target_number > name THEN jump_forward(blks, name + 1, target_number)
    ELSE jump_backward(blks, name - 1, target_number)

\* quadword_offset with the forward loop starting at the current block
quadword_offset_counts_current(blks, name, target_type, target_number) ==
    IF target_type = "TARGET_DISCARD" THEN 2
    ELSE IF target_type = "TARGET_TILEBUF_WAIT" THEN -1
    ELSE IF target_number > name THEN jump_forward(blks, name, target_number)
    ELSE jump_backward(blks, name, target_number)

quadword_offset(blks, name, target_type, target_number) ==
    IF target_type = "TARGET_DISCARD" THEN 2
    ELSE IF target_type = "TARGET_TILEBUF_WAIT" THEN -1
    ELSE IF target_number > name THEN jump_forward(blks, name + 1, target_number)
    ELSE jump_backward(blks, name, target_number)

branch_dest_tag(i, tag) ==
    IF i.branch.target_type = "TARGET_DISCARD" THEN <<"tag", 0>>
    ELSE IF i.branch.target_type = "TARGET_TILEBUF_WAIT" THEN <<"tag", tag>>
    ELSE <<"first_tag_from_block", i.branch.target_block>>

branch_condition(i) ==
    IF ~i.branch.conditional THEN midgard_condition_always
    ELSE IF i.branch.invert_conditional THEN midgard_condition_false
    ELSE midgard_condition_true

\* branch_writeout_op with the writeout flag tested before the special targets
branch_writeout_op_writeout_first(i) ==
    IF i.writeout THEN "midgard_jmp_writeout_op_writeout"
    ELSE IF i.branch.target_type = "TARGET_DISCARD" THEN "midgard_jmp_writeout_op_discard"
    ELSE IF i.branch.target_type = "TARGET_TILEBUF_WAIT"
         THEN "midgard_jmp_writeout_op_tilebuffer_pending"
    ELSE IF i.unit = "ALU_ENAB_BR_COMPACT" /\ ~i.branch.conditional
         THEN "midgard_jmp_writeout_op_branch_uncond"
    ELSE "midgard_jmp_writeout_op_branch_cond"

branch_writeout_op(i) ==
    IF i.branch.target_type = "TARGET_DISCARD" THEN "midgard_jmp_writeout_op_discard"
    ELSE IF i.branch.target_type = "TARGET_TILEBUF_WAIT"
         THEN "midgard_jmp_writeout_op_tilebuffer_pending"
    ELSE IF i.writeout THEN "midgard_jmp_writeout_op_writeout"
    ELSE IF i.unit = "ALU_ENAB_BR_COMPACT" /\ ~i.branch.conditional
         THEN "midgard_jmp_writeout_op_branch_uncond"
    ELSE "midgard_jmp_writeout_op_branch_cond"

\* midgard_create_branch_extended without the duplication: the condition code
\* fills the lowest slot only
midgard_create_branch_extended_one_slot(cond, op, dest_tag, offset) ==
    [form |-> "midgard_branch_extended",
     op |-> op,
     dest_tag |-> dest_tag,
     offset |-> offset,
     cond |-> Shl(cond, 0)]

midgard_create_branch_extended(cond, op, dest_tag, offset) ==
    [form |-> "midgard_branch_extended",
     op |-> op,
     dest_tag |-> dest_tag,
     offset |-> offset,
     cond |-> Shl(cond, 14) + Shl(cond, 12) + Shl(cond, 10) + Shl(cond, 8)
              + Shl(cond, 6) + Shl(cond, 4) + Shl(cond, 2) + Shl(cond, 0)]

\* emit_branch without assert(op == midgard_jmp_writeout_op_branch_uncond)
emit_branch_unchecked(i, blks, name, tag, em) ==
    LET is_compact == i.unit = "ALU_ENAB_BR_COMPACT"
        is_conditional == i.branch.conditional
        is_special == i.branch.target_type \in {"TARGET_DISCARD", "TARGET_TILEBUF_WAIT"}
        dest_tag == branch_dest_tag(i, tag)
        offset == quadword_offset(blks, name, i.branch.target_type, i.branch.target_block)
        cond == branch_condition(i)
        op == branch_writeout_op(i)
    IN  IF is_compact
        THEN IF is_conditional \/ is_special
             THEN [emission |-> Append(em, [form |-> "midgard_branch_cond", op |-> op,
                                            dest_tag |-> dest_tag, offset |-> offset,
                                            cond |-> cond]),
                   failed |-> FALSE, quadword_offset |-> offset]
             ELSE [emission |-> Append(em, [form |-> "midgard_branch_uncond",
                                            op |-> op, dest_tag |-> dest_tag,
                                            offset |-> offset, unknown |-> 1]),
                   failed |-> FALSE, quadword_offset |-> offset]
        ELSE [emission |-> Append(em, midgard_create_branch_extended(cond, op, dest_tag, offset)),
              failed |-> FALSE, quadword_offset |-> offset]

\* The result of emit_branch: the buffer afterwards, whether an assert() stopped
\* the call, and the offset computed.  The offset fields hold quadword_offset
\* as is: the layouts of the model stay far inside the fields' ranges.
emit_branch(i, blks, name, tag, em) ==
    LET is_compact == i.unit = "ALU_ENAB_BR_COMPACT"
        is_conditional == i.branch.conditional
        is_special == i.branch.target_type \in {"TARGET_DISCARD", "TARGET_TILEBUF_WAIT"}
        dest_tag == branch_dest_tag(i, tag)
        offset == quadword_offset(blks, name, i.branch.target_type, i.branch.target_block)
        cond == branch_condition(i)
        op == branch_writeout_op(i)
    IN  IF is_compact
        THEN IF is_conditional \/ is_special
             THEN [emission |-> Append(em, [form |-> "midgard_branch_cond", op |-> op,
                                            dest_tag |-> dest_tag, offset |-> offset,
                                            cond |-> cond]),
                   failed |-> FALSE, quadword_offset |-> offset]
             ELSE IF op # "midgard_jmp_writeout_op_branch_uncond"
                  THEN [emission |-> em, failed |-> TRUE, quadword_offset |-> offset]
                  ELSE [emission |-> Append(em, [form |-> "midgard_branch_uncond",
                                                 op |-> op, dest_tag |-> dest_tag,
                                                 offset |-> offset, unknown |-> 1]),
                        failed |-> FALSE, quadword_offset |-> offset]
        ELSE [emission |-> Append(em, midgard_create_branch_extended(cond, op, dest_tag, offset)),
              failed |-> FALSE, quadword_offset |-> offset]

BranchInstructions ==
    [unit : BranchUnits,
     writeout : BOOLEAN,
     branch : [conditional : BOOLEAN,
               invert_conditional : BOOLEAN,
               target_type : TargetTypes,
               target_block : BlockNames]]

InitBranch ==
    /\ ctx = DefaultContext
    /\ blocks \in [BlockNames -> 0 .. MaxQuad]
    /\ block \in BlockNames
    /\ bundles = << >>
    /\ bundle \in {[tag |-> TAG_ALU_4], [tag |-> TAG_ALU_8]}
    /\ ins \in BranchInstructions
    /\ out = NoValue
    /\ emission = << >>
    /\ pc = "start"

\* emit_branch returns having appended one branch word
EmitBranch ==
    /\ pc = "start"
    /\ LET r == emit_branch(ins, blocks, block, bundle.tag, emission)
       IN  /\ ~r.failed
           /\ emission' = r.emission
           /\ out' = [quadword_offset |-> r.quadword_offset]
           /\ pc' = "done"
    /\ UNCHANGED <<ctx, blocks, block, bundles, bundle, ins>>

\* emit_branch stops in assert(op == midgard_jmp_writeout_op_branch_uncond)
EmitBranchAssert ==
    /\ pc = "start"
    /\ LET r == emit_branch(ins, blocks, block, bundle.tag, emission)
       IN  /\ r.failed
           /\ emission' = r.emission
           /\ out' = [quadword_offset |-> r.quadword_offset]
           /\ pc' = "assert"
    /\ UNCHANGED <<ctx, blocks, block, bundles, bundle, ins>>

NextBranch == EmitBranch \/ EmitBranchAssert

SpecBranch == InitBranch /\ [][NextBranch]_vars


-----------------------------------------------------------------------------
(* Properties of emit_branch, checked under SpecBranch *)

RECURSIVE SumOver(_, _)
SumOver(f, S) ==
    IF S = {} THEN 0
    ELSE LET k == CHOOSE x \in S : TRUE IN f[k] + SumOver(f, S \ {k})

NormalBranchDone ==
    /\ pc = "done"
    /\ ins.branch.target_type = "TARGET_GOTO"

\* The offset emit_branch computes for the branch in the opposite direction:
\* located in this branch's target block and targeting this branch's block
ReverseOffset ==
    emit_branch([ins EXCEPT !.branch.target_block = block], blocks,
                ins.branch.target_block, bundle.tag, << >>).quadword_offset

NoZeroLengthBetween ==
    LET lo == IF block < ins.branch.target_block THEN block ELSE ins.branch.target_block
        hi == IF block < ins.branch.target_block THEN ins.branch.target_block ELSE block
    IN  \A k \in (lo + 1) .. (hi - 1) : blocks[k] # 0

\* C1 (as claimed): for distinct blocks A before B with no zero-length block
\* between them, offset(A -> B) = -offset(B -> A)
C1_Original ==
    (NormalBranchDone /\ ins.branch.target_block # block /\ NoZeroLengthBetween)
        => out.quadword_offset = -ReverseOffset

\* C1 (amended): for distinct blocks A before B, the backward offset B -> A is
\* the negation of the forward offset A -> B less the quadword counts of A and
\* of B: offset(B -> A) = -(offset(A -> B) + len(A) + len(B))
C1_Amended ==
    (NormalBranchDone /\ ins.branch.target_block # block)
        => IF ins.branch.target_block > block
           THEN ReverseOffset = -(out.quadword_offset + blocks[block]
                                  + blocks[ins.branch.target_block])
           ELSE out.quadword_offset = -(ReverseOffset + blocks[block]
                                        + blocks[ins.branch.target_block])

C1_Witness ==
    /\ NormalBranchDone
    /\ ins.branch.target_block < block - 1
    /\ NoZeroLengthBetween
    /\ blocks[block] > 0
    /\ blocks[ins.branch.target_block] > 0
    /\ out.quadword_offset < 0
    /\ Len(emission) = 1

\* C2 (as claimed): the offset of a normal-target branch in block S targeting D
\* is the sum of the quadword counts of the blocks strictly between S and D,
\* positive when D follows S and negative when D precedes S
C2_Original ==
    NormalBranchDone
        => LET S == block
               D == ins.branch.target_block
           IN  IF D > S
               THEN out.quadword_offset = SumOver(blocks, (S + 1) .. (D - 1))
               ELSE out.quadword_offset = -SumOver(blocks, (D + 1) .. (S - 1))

\* C2 (amended): when D follows S the offset is the sum of the quadword counts
\* of the blocks strictly between S and D; otherwise (D is S or precedes it) it
\* is minus the sum of the quadword counts of the blocks from D to S inclusive
C2_Amended ==
    NormalBranchDone
        => LET S == block
               D == ins.branch.target_block
           IN  IF D > S
               THEN out.quadword_offset = SumOver(blocks, (S + 1) .. (D - 1))
               ELSE out.quadword_offset = -SumOver(blocks, D .. S)

C2_Witness ==
    /\ NormalBranchDone
    /\ ins.branch.target_block > block + 1
    /\ blocks[block + 1] > 0
    /\ blocks[block] > 0
    /\ out.quadword_offset > 0
    /\ emission[1].offset = out.quadword_offset

LastWord == emission[Len(emission)]

\* C10 (as claimed): in both forms the operation kind is the first that
\* applies of discard, tile-buffer-pending, writeout, unconditional-branch
\* (not conditional), conditional-branch
C10_Original ==
    pc = "done"
        => LastWord.op =
             IF ins.branch.target_type = "TARGET_DISCARD"
             THEN "midgard_jmp_writeout_op_discard"
             ELSE IF ins.branch.target_type = "TARGET_TILEBUF_WAIT"
             THEN "midgard_jmp_writeout_op_tilebuffer_pending"
             ELSE IF ins.writeout THEN "midgard_jmp_writeout_op_writeout"
             ELSE IF ~ins.branch.conditional
             THEN "midgard_jmp_writeout_op_branch_uncond"
             ELSE "midgard_jmp_writeout_op_branch_cond"

\* C10 (amended): the operation kind is the first that applies of discard,
\* tile-buffer-pending, writeout, unconditional-branch (compact form and not
\* conditional), conditional-branch (otherwise, so every extended branch that
\* is none of the first three is written as conditional-branch)
C10_Amended ==
    pc = "done"
        => LastWord.op =
             IF ins.branch.target_type = "TARGET_DISCARD"
             THEN "midgard_jmp_writeout_op_discard"
             ELSE IF ins.branch.target_type = "TARGET_TILEBUF_WAIT"
             THEN "midgard_jmp_writeout_op_tilebuffer_pending"
             ELSE IF ins.writeout THEN "midgard_jmp_writeout_op_writeout"
             ELSE IF ~ins.branch.conditional /\ ins.unit = "ALU_ENAB_BR_COMPACT"
             THEN "midgard_jmp_writeout_op_branch_uncond"
             ELSE "midgard_jmp_writeout_op_branch_cond"

C10_Witness ==
    /\ pc = "done"
    /\ ins.unit = "ALU_ENAB_BRANCH"
    /\ ~ins.branch.conditional
    /\ ~ins.writeout
    /\ ins.branch.target_type = "TARGET_GOTO"
    /\ LastWord.form = "midgard_branch_extended"
    /\ LastWord.op = "midgard_jmp_writeout_op_branch_cond"


\* The two-bit slot k of a 16-bit condition field
ConditionSlot(cond, k) == (cond \div Pow2(2 * k)) % 4

\* C15: the condition field of every extended branch is 8 two-bit slots that
\* all hold one condition code: always for an unconditional branch, false for
\* a conditional branch with the inversion flag, true for a conditional branch
\* without it.
C15_ExtendedCondition ==
    (pc = "done" /\ ins.unit = "ALU_ENAB_BRANCH") =>
        /\ LastWord.form = "midgard_branch_extended"
        /\ LastWord.cond < Pow2(16)
        /\ \A k \in 0 .. 7 :
              ConditionSlot(LastWord.cond, k) =
                  IF ~ins.branch.conditional THEN midgard_condition_always
                  ELSE IF ins.branch.invert_conditional THEN midgard_condition_false
                  ELSE midgard_condition_true

\* an inverted conditional extended branch: false in the highest slot too
C15_Witness ==
    /\ pc = "done"
    /\ ins.unit = "ALU_ENAB_BRANCH"
    /\ ins.branch.conditional
    /\ ins.branch.invert_conditional
    /\ ConditionSlot(LastWord.cond, 7) = midgard_condition_false
    /\ ConditionSlot(LastWord.cond, 0) = midgard_condition_false


\* A compact, unconditional branch to a block with the writeout flag set
CompactWriteout(i) ==
    /\ i.unit = "ALU_ENAB_BR_COMPACT"
    /\ ~i.branch.conditional
    /\ i.branch.target_type = "TARGET_GOTO"
    /\ i.writeout

\* C19: every word in the compact unconditional layout has the op
\* unconditional-branch and the marker 1; a compact, unconditional branch to a
\* normal target with the writeout flag set is never emitted in that layout:
\* the call stops in the assertion and the buffer holds no body for it.
C19_UncondLayout ==
    pc # "start" =>
        /\ \A n \in DOMAIN emission :
              emission[n].form = "midgard_branch_uncond"
                  => /\ emission[n].op = "midgard_jmp_writeout_op_branch_uncond"
                     /\ emission[n].unknown = 1
        /\ CompactWriteout(ins) => (pc = "assert" /\ emission = << >>)

C19_Witness ==
    /\ pc = "assert"
    /\ CompactWriteout(ins)
    /\ emission = << >>

-----------------------------------------------------------------------------
(* mir_can_run_ooo, mir_pack_tex_ooo *)

\* ~0, the "no register" marker of ins->src[] and ins->dest (all bits set,
\* written here as the int it is before conversion)
UNUSED == -1

MIR_SRC_COUNT == 4

\* ins->src[0 .. MIR_SRC_COUNT-1]
Src4(a, b, c, d) ==
    [s \in 0 .. (MIR_SRC_COUNT - 1) |->
        IF s = 0 THEN a ELSE IF s = 1 THEN b ELSE IF s = 2 THEN c ELSE d]

Regs == {0, 1}

\* mir_can_run_ooo without the test of the bundle's tag
mir_can_run_ooo_any_tag(bs, idx, dependency) ==
    IF idx > Len(bs) THEN FALSE
    ELSE \A n \in 1 .. Len(bs[idx].instructions) :
            \A s \in 0 .. (MIR_SRC_COUNT - 1) :
                bs[idx].instructions[n].src[s] # dependency

\* bs is block->bundles, idx the position of the candidate bundle in it
mir_can_run_ooo(bs, idx, dependency) ==
    IF idx > Len(bs) THEN FALSE
    ELSE IF ~IS_ALU(bs[idx].tag) /\ bs[idx].tag # TAG_LOAD_STORE_4 THEN FALSE
    ELSE \A n \in 1 .. Len(bs[idx].instructions) :
            \A s \in 0 .. (MIR_SRC_COUNT - 1) :
                bs[idx].instructions[n].src[s] # dependency

\* for (count = 0; count < 3; ++count) if (!mir_can_run_ooo(...)) break;
RECURSIVE tex_ooo_count(_, _, _, _)
tex_ooo_count(bs, idx, dest, count) ==
    IF count < 3 /\ mir_can_run_ooo(bs, idx + count + 1, dest)
    THEN tex_ooo_count(bs, idx, dest, count + 1)
    ELSE count

mir_pack_tex_ooo(bs, idx, i) == tex_ooo_count(bs, idx, i.dest, 0)

\* The bundles a scheduled block is made of here: a texture bundle, load/store
\* and ALU bundles reading r0 or r1, with and without unused source slots
OooBundles ==
    {[tag |-> TAG_TEXTURE_4,
      instructions |-> <<[src |-> Src4(UNUSED, 1, UNUSED, UNUSED)]>>]}
    \cup {[tag |-> TAG_LOAD_STORE_4,
           instructions |-> <<[src |-> Src4(r, UNUSED, UNUSED, UNUSED)]>>] : r \in Regs}
    \cup {[tag |-> TAG_ALU_8,
           instructions |-> <<[src |-> Src4(1, UNUSED, UNUSED, UNUSED)],
                              [src |-> Src4(UNUSED, r, UNUSED, UNUSED)]>>] : r \in Regs}
    \cup {[tag |-> TAG_ALU_4,
           instructions |-> <<[src |-> Src4(1, 1, 1, 1)]>>]}

BundleLists == UNION {[1 .. n -> OooBundles] : n \in 1 .. MaxBundles}

InitOoo ==
    /\ ctx = DefaultContext
    /\ blocks = << >>
    /\ block = 0
    /\ bundles \in BundleLists
    /\ \E idx \in 1 .. Len(bundles) :
          /\ bundles[idx].tag = TAG_TEXTURE_4
          /\ bundle = [tag |-> TAG_TEXTURE_4, index |-> idx]
    /\ ins \in [dest : {0, UNUSED}]
    /\ out = NoValue
    /\ emission = << >>
    /\ pc = "start"

PackTexOoo ==
    /\ pc = "start"
    /\ out' = [out_of_order |-> mir_pack_tex_ooo(bundles, bundle.index, ins)]
    /\ pc' = "done"
    /\ UNCHANGED <<ctx, blocks, block, bundles, bundle, ins, emission>>

NextOoo == PackTexOoo

SpecOoo == InitOoo /\ [][NextOoo]_vars

-----------------------------------------------------------------------------
(* Properties of mir_pack_tex_ooo, checked under SpecOoo *)

IsTextureTag(tag) == tag \in {TAG_TEXTURE_4_VTX, TAG_TEXTURE_4, TAG_TEXTURE_4_BARRIER}

\* Some instruction of bundle b has register r among its sources
ReadsRegister(b, r) ==
    \E n \in DOMAIN b.instructions :
        \E s \in DOMAIN b.instructions[n].src : b.instructions[n].src[s] = r

\* The conditions a following bundle has to meet to be counted
Countable(idx) ==
    /\ idx <= Len(bundles)
    /\ ~IsTextureTag(bundles[idx].tag)
    /\ ~(ins.dest # UNUSED /\ ReadsRegister(bundles[idx], ins.dest))

\* C3: the out-of-order depth is in 0..3, counts no position at or past the
\* end of the block's bundle list, is 0 when the next bundle is a texture
\* bundle or reads the texture instruction's destination register, and counts
\* only an unbroken run of bundles meeting the conditions (when the
\* destination is a register, the whole run up to 3)
C3_OooDepth ==
    pc = "done"
        => /\ out.out_of_order \in 0 .. 3
           /\ bundle.index + out.out_of_order <= Len(bundles)
           /\ (bundle.index < Len(bundles)
               /\ (\/ IsTextureTag(bundles[bundle.index + 1].tag)
                   \/ (ins.dest # UNUSED
                       /\ ReadsRegister(bundles[bundle.index + 1], ins.dest))))
              => out.out_of_order = 0
           /\ \A k \in 1 .. out.out_of_order : Countable(bundle.index + k)
           /\ (ins.dest # UNUSED /\ out.out_of_order < 3)
              => ~Countable(bundle.index + out.out_of_order + 1)

\* Depth 1: the next bundle is counted, the one after it reads the destination
\* and a countable bundle follows that one
C3_Witness ==
    /\ pc = "done"
    /\ ins.dest = 0
    /\ out.out_of_order = 1
    /\ bundle.index + 3 <= Len(bundles)
    /\ ReadsRegister(bundles[bundle.index + 2], 0)
    /\ Countable(bundle.index + 3)


\* C18: when the texture instruction's destination is the unused marker, a
\* following ALU or load/store bundle is counted whatever unused source slots
\* its instructions have: an unused slot is not a read of the destination, so
\* the depth is the run of ALU and load/store bundles that follows, up to 3.
C18_UnusedIsNoRead ==
    (pc = "done" /\ ins.dest = UNUSED)
        => \A k \in 1 .. 3 :
              (/\ bundle.index + k <= Len(bundles)
               /\ \A j \in 1 .. k :
                     \/ IS_ALU(bundles[bundle.index + j].tag)
                     \/ bundles[bundle.index + j].tag = TAG_LOAD_STORE_4)
                 => out.out_of_order >= k

-----------------------------------------------------------------------------
(* mir_lower_inverts *)

AluOps ==
    {"midgard_alu_op_iand", "midgard_alu_op_ior", "midgard_alu_op_ixor",
     "midgard_alu_op_inor", "midgard_alu_op_iandnot", "midgard_alu_op_inand",
     "midgard_alu_op_iornot", "midgard_alu_op_inxor",
     "midgard_alu_op_iadd", "midgard_alu_op_fadd"}

\* mir_lower_inverts testing source 1 where the code tests source 2
mir_lower_inverts_src1(op, src_invert) ==
    LET inv == src_invert
    IN  CASE op = "midgard_alu_op_iand" ->
                IF inv[0] /\ inv[1] THEN "midgard_alu_op_inor"
                ELSE IF inv[0] THEN "midgard_alu_op_iandnot"
                ELSE op
          [] op = "midgard_alu_op_ior" ->
                IF inv[0] /\ inv[1] THEN "midgard_alu_op_inand"
                ELSE IF inv[0] THEN "midgard_alu_op_iornot"
                ELSE op
          [] op = "midgard_alu_op_ixor" ->
                IF inv[0] # inv[1] THEN "midgard_alu_op_inxor" ELSE op
          [] OTHER -> op

\* The opcode mir_lower_inverts leaves in ins->op
mir_lower_inverts(op, src_invert) ==
    LET inv == src_invert
    IN  CASE op = "midgard_alu_op_iand" ->
                IF inv[0] /\ inv[1] THEN "midgard_alu_op_inor"
                ELSE IF inv[1] THEN "midgard_alu_op_iandnot"
                ELSE op
          [] op = "midgard_alu_op_ior" ->
                IF inv[0] /\ inv[1] THEN "midgard_alu_op_inand"
                ELSE IF inv[1] THEN "midgard_alu_op_iornot"
                ELSE op
          [] op = "midgard_alu_op_ixor" ->
                IF inv[0] # inv[1] THEN "midgard_alu_op_inxor" ELSE op
          [] OTHER -> op

InitInverts ==
    /\ ctx = DefaultContext
    /\ blocks = << >>
    /\ block = 0
    /\ bundles = << >>
    /\ bundle \in {[tag |-> TAG_ALU_4], [tag |-> TAG_ALU_8]}
    /\ ins \in [op : AluOps, src_invert : [0 .. 2 -> BOOLEAN], compact_branch : {FALSE}]
    /\ out = NoValue
    /\ emission = << >>
    /\ pc = "start"

\* emit_alu_bundle, body loop: if (!ins->compact_branch) mir_lower_inverts(ins)
LowerInverts ==
    /\ pc = "start"
    /\ ~ins.compact_branch
    /\ out' = [op |-> mir_lower_inverts(ins.op, ins.src_invert)]
    /\ pc' = "done"
    /\ UNCHANGED <<ctx, blocks, block, bundles, bundle, ins, emission>>

NextInverts == LowerInverts

SpecInverts == InitInverts /\ [][NextInverts]_vars

\* C4: AND with both sources inverted becomes NOR; AND with only source 2
\* inverted becomes AND-NOT; OR with both inverted becomes NAND; OR with only
\* source 2 inverted becomes OR-NOT; XOR with exactly one source inverted
\* becomes XNOR; every other opcode or flag combination keeps its opcode
C4_LowerInverts ==
    pc = "done"
        => LET a == ins.src_invert[0]
               b == ins.src_invert[1]
               o == ins.op
           IN  /\ (o = "midgard_alu_op_iand" /\ a /\ b) => out.op = "midgard_alu_op_inor"
               /\ (o = "midgard_alu_op_iand" /\ ~a /\ b) => out.op = "midgard_alu_op_iandnot"
               /\ (o = "midgard_alu_op_ior" /\ a /\ b) => out.op = "midgard_alu_op_inand"
               /\ (o = "midgard_alu_op_ior" /\ ~a /\ b) => out.op = "midgard_alu_op_iornot"
               /\ (o = "midgard_alu_op_ixor" /\ (a # b)) => out.op = "midgard_alu_op_inxor"
               /\ (o \in {"midgard_alu_op_iand", "midgard_alu_op_ior"} /\ ~b) => out.op = o
               /\ (o = "midgard_alu_op_ixor" /\ (a = b)) => out.op = o
               /\ (o \notin {"midgard_alu_op_iand", "midgard_alu_op_ior",
                             "midgard_alu_op_ixor"}) => out.op = o

C4_Witness ==
    /\ pc = "done"
    /\ ins.op = "midgard_alu_op_iand"
    /\ ~ins.src_invert[0]
    /\ ins.src_invert[1]
    /\ out.op = "midgard_alu_op_iandnot"

\* What a bitwise opcode computes on one bit of each operand, as the comments
\* of mir_lower_inverts give it: iandnot(a, b) = a & ~b, inor(a, b) = ~(a | b),
\* iornot(a, b) = a | ~b, inand(a, b) = ~(a & b), inxor(a, b) = ~(a ^ b)
Computes(op, a, b) ==
    CASE op = "midgard_alu_op_iand" -> a /\ b
      [] op = "midgard_alu_op_ior" -> a \/ b
      [] op = "midgard_alu_op_ixor" -> a # b
      [] op = "midgard_alu_op_inor" -> ~(a \/ b)
      [] op = "midgard_alu_op_iandnot" -> a /\ ~b
      [] op = "midgard_alu_op_inand" -> ~(a /\ b)
      [] op = "midgard_alu_op_iornot" -> a \/ ~b
      [] op = "midgard_alu_op_inxor" -> ~(a # b)

\* C16: for AND, OR and XOR and every combination of the invert flags of the
\* two sources, the opcode mir_lower_inverts leaves, applied to the operands as
\* they are, computes what the original opcode computes on the operands
\* inverted as flagged, for all operand bits.
C16_PreservesMeaning ==
    (pc = "done" /\ ins.op \in {"midgard_alu_op_iand", "midgard_alu_op_ior",
                                "midgard_alu_op_ixor"})
        => \A a, b \in BOOLEAN :
              Computes(out.op, a, b) =
                  Computes(ins.op, a # ins.src_invert[0], b # ins.src_invert[1])


-----------------------------------------------------------------------------
(* mir_pack_ldst_mask *)

nir_alu_type_get_type_size(T) == T.size

\* packed |= (u << i) for i = from .. 3, asserting u == v on the way;
\* [failed |-> TRUE] when an assert(u == v) stops the loop
RECURSIVE ldst_mask_16(_, _, _)
ldst_mask_16(mask, i, packed) ==
    IF i >= 4 THEN [failed |-> FALSE, packed |-> packed]
    ELSE LET u == Bit(mask, 2 * i + 0)
             v == Bit(mask, 2 * i + 1)
         IN  IF u # v THEN [failed |-> TRUE, packed |-> packed]
             ELSE ldst_mask_16(mask, i + 1, BitOr(packed, Shl(u, i)))

\* the 16-bit loop compiled without its assert(u == v)
RECURSIVE ldst_mask_16_unchecked(_, _, _)
ldst_mask_16_unchecked(mask, i, packed) ==
    IF i >= 4 THEN [failed |-> FALSE, packed |-> packed]
    ELSE ldst_mask_16_unchecked(mask, i + 1, BitOr(packed, Shl(Bit(mask, 2 * i), i)))

\* mir_pack_ldst_mask without the duplication check
mir_pack_ldst_mask_unchecked(i) ==
    LET sz == nir_alu_type_get_type_size(i.dest_type)
    IN  IF sz = 64
        THEN [failed |-> FALSE,
              packed |-> BitOr(IF BitAnd(i.mask, 2) # 0 THEN BitOr(8, 4) ELSE 0,
                               IF BitAnd(i.mask, 1) # 0 THEN BitOr(2, 1) ELSE 0)]
        ELSE IF sz = 16 THEN ldst_mask_16_unchecked(i.mask, 0, 0)
        ELSE [failed |-> sz # 32, packed |-> i.mask]

\* The value stored to ins->load_store.mask, or failed when an assert stops it
mir_pack_ldst_mask(i) ==
    LET sz == nir_alu_type_get_type_size(i.dest_type)
    IN  IF sz = 64
        THEN [failed |-> FALSE,
              packed |-> BitOr(IF BitAnd(i.mask, 2) # 0 THEN BitOr(8, 4) ELSE 0,
                               IF BitAnd(i.mask, 1) # 0 THEN BitOr(2, 1) ELSE 0)]
        ELSE IF sz = 16 THEN ldst_mask_16(i.mask, 0, 0)
        ELSE [failed |-> sz # 32, packed |-> i.mask]

\* Masks have one bit per component of the 128-bit destination
LdstInstructions ==
    UNION {[dest_type : {[base |-> "nir_type_uint", size |-> sz]},
            mask : 0 .. (Pow2(128 \div sz) - 1)] : sz \in {16, 32, 64}}
    \cup [dest_type : {[base |-> "nir_type_uint", size |-> 8]}, mask : 0 .. 15]

InitLdstMask ==
    /\ ctx = DefaultContext
    /\ blocks = << >>
    /\ block = 0
    /\ bundles = << >>
    /\ bundle = [tag |-> TAG_LOAD_STORE_4]
    /\ ins \in LdstInstructions
    /\ out = NoValue
    /\ emission = << >>
    /\ pc = "start"

PackLdstMask ==
    /\ pc = "start"
    /\ LET r == mir_pack_ldst_mask(ins)
       IN  /\ ~r.failed
           /\ out' = [load_store |-> [mask |-> r.packed]]
    /\ pc' = "done"
    /\ UNCHANGED <<ctx, blocks, block, bundles, bundle, ins, emission>>

\* assert(u == v) or assert(sz == 32) stops mir_pack_ldst_mask
PackLdstMaskAssert ==
    /\ pc = "start"
    /\ mir_pack_ldst_mask(ins).failed
    /\ pc' = "assert"
    /\ UNCHANGED <<ctx, blocks, block, bundles, bundle, ins, out, emission>>

NextLdstMask == PackLdstMask \/ PackLdstMaskAssert

SpecLdstMask == InitLdstMask /\ [][NextLdstMask]_vars

\* Mask bits 2i and 2i+1 agree for every lane i in 0..3
Duplicated(mask) == \A i \in 0 .. 3 : Bit(mask, 2 * i) = Bit(mask, 2 * i + 1)

\* C5: with a 16-bit destination type the packing succeeds exactly when mask
\* bits 2i and 2i+1 are equal for every lane i in 0..3; packed bit i is then
\* mask bit 2i and nothing else is set; otherwise it stops in an assertion
\* and stores no packed mask
C5_LdstMask16 ==
    (pc # "start" /\ ins.dest_type.size = 16)
        => /\ (pc = "done") <=> Duplicated(ins.mask)
           /\ (pc = "assert") <=> ~Duplicated(ins.mask)
           /\ pc = "done"
              => /\ \A i \in 0 .. 3 : Bit(out.load_store.mask, i) = Bit(ins.mask, 2 * i)
                 /\ out.load_store.mask \in 0 .. 15
           /\ pc = "assert" => out = NoValue

\* the scenario of the specification: mask 0b00000011 packs to 0b0001
C5_Witness ==
    /\ pc = "done"
    /\ ins.dest_type.size = 16
    /\ ins.mask = 3
    /\ out.load_store.mask = 1


-----------------------------------------------------------------------------
(* mir_get_imod, mir_pack_mod, component_from_mask, mir_pack_scalar_source,
   vector_alu_from_instr, vector_to_scalar_alu *)

midgard_int_sign_extend == 0
midgard_int_zero_extend == 1
midgard_int_normal == 2
midgard_int_shift == 3

midgard_is_integer_op(op) == op # "midgard_alu_op_fadd"

Max(a, b) == IF a >= b THEN a ELSE b

\* The widest of the destination and the sources in use
max_bitsize_for_alu(i) ==
    LET src_bitsize(n) ==
            IF i.src[n] = UNUSED THEN 0 ELSE nir_alu_type_get_type_size(i.src_types[n])
    IN  Max(nir_alu_type_get_type_size(i.dest_type),
            Max(Max(src_bitsize(0), src_bitsize(1)), Max(src_bitsize(2), src_bitsize(3))))

nir_alu_type_get_base_type(T) == T.base

\* mir_get_imod without the test of the base type: a half-width read always
\* zero-extends
mir_get_imod_unsigned(shift, T, half, scalar) ==
    IF ~half
    THEN IF shift THEN [failed |-> TRUE, mod |-> 0]
         ELSE [failed |-> FALSE, mod |-> IF scalar THEN 0 ELSE midgard_int_normal]
    ELSE IF shift THEN [failed |-> FALSE, mod |-> midgard_int_shift]
    ELSE [failed |-> FALSE, mod |-> midgard_int_zero_extend]

mir_get_imod(shift, T, half, scalar) ==
    IF ~half
    THEN IF shift THEN [failed |-> TRUE, mod |-> 0]
         ELSE [failed |-> FALSE, mod |-> IF scalar THEN 0 ELSE midgard_int_normal]
    ELSE IF shift THEN [failed |-> FALSE, mod |-> midgard_int_shift]
    ELSE IF nir_alu_type_get_base_type(T) = "nir_type_int"
         THEN [failed |-> FALSE, mod |-> midgard_int_sign_extend]
    ELSE [failed |-> FALSE, mod |-> midgard_int_zero_extend]

mir_pack_mod(i, n, scalar) ==
    LET integer == midgard_is_integer_op(i.op)
        base_size == max_bitsize_for_alu(i)
        sz == nir_alu_type_get_type_size(i.src_types[n])
        half == (sz = Shr(base_size, 1))
    IN  IF integer
        THEN mir_get_imod(i.src_shift[n], i.src_types[n], half, scalar)
        ELSE [failed |-> FALSE,
              mod |-> BitOr(Shl(IF i.src_abs[n] THEN 1 ELSE 0, 0),
                            Shl(IF i.src_neg[n] THEN 1 ELSE 0, 1))]

\* The lowest set bit among the low 8 of mask; -1 stands for assert(0)
RECURSIVE component_scan(_, _)
component_scan(mask, c) ==
    IF c >= 8 THEN -1
    ELSE IF BitAnd(mask, Shl(1, c)) # 0 THEN c
    ELSE component_scan(mask, c + 1)

component_from_mask(mask) == component_scan(mask, 0)

\* The fields of midgard_scalar_alu_src (6 bits in all)
mir_pack_scalar_source(mod, is_full, component) ==
    [mod |-> mod,
     full |-> is_full,
     component |-> Shl(component, IF is_full THEN 1 ELSE 0)]

\* The immediate without its imm |= (lower_11 >> 6) & 4
scalar_inline_constant_no_bit8(inline_constant) ==
    LET lower_11 == BitAnd(inline_constant, Shl(1, 12) - 1)
    IN  BitOr(BitAnd(Shr(lower_11, 9), 3),
              BitOr(BitAnd(Shr(lower_11, 2), 56), Shl(BitAnd(lower_11, 63), 6)))

\* The uint16_t imm that vector_to_scalar_alu stores to s.src2
scalar_inline_constant(inline_constant) ==
    LET lower_11 == BitAnd(inline_constant, Shl(1, 12) - 1)
    IN  BitOr(BitOr(BitAnd(Shr(lower_11, 9), 3), BitAnd(Shr(lower_11, 6), 4)),
              BitOr(BitAnd(Shr(lower_11, 2), 56), Shl(BitAnd(lower_11, 63), 6)))

reg_mode_for_bitsize(bitsize) ==
    IF bitsize = 8 THEN "midgard_reg_mode_8"
    ELSE IF bitsize = 16 THEN "midgard_reg_mode_16"
    ELSE IF bitsize = 32 THEN "midgard_reg_mode_32"
    ELSE "midgard_reg_mode_64"

\* alu.src2 = imm << 2 of vector_alu_from_instr
vector_inline_constant(inline_constant) ==
    LET lower_11 == BitAnd(inline_constant, Shl(1, 12) - 1)
        imm == BitOr(BitAnd(Shr(lower_11, 8), 7), Shl(BitAnd(lower_11, 255), 3))
    IN  Shl(imm, 2)

\* The midgard_vector_alu that vector_alu_from_instr starts: the fields not
\* named in the initialiser are zero
vector_alu_from_instr(i) ==
    [op |-> i.op,
     outmod |-> i.outmod,
     reg_mode |-> reg_mode_for_bitsize(max_bitsize_for_alu(i)),
     dest_override |-> 0,
     mask |-> 0,
     src1 |-> [raw |-> 0],
     src2 |-> [raw |-> IF i.has_inline_constant
                       THEN vector_inline_constant(i.inline_constant) ELSE 0]]

\* vector_to_scalar_alu without s.output_component <<= 1 for full outputs
vector_to_scalar_alu_unspaced(v, i) ==
    LET is_full == nir_alu_type_get_type_size(i.dest_type) = 32
        half_0 == nir_alu_type_get_type_size(i.src_types[0]) = 16
        half_1 == nir_alu_type_get_type_size(i.src_types[1]) = 16
        comp == component_from_mask(i.mask)
        mod_0 == mir_pack_mod(i, 0, TRUE)
        mod_1 == mir_pack_mod(i, 1, TRUE)
    IN  IF comp < 0 \/ mod_0.failed \/ mod_1.failed \/ (is_full /\ ~(comp < 4))
        THEN [failed |-> TRUE]
        ELSE [failed |-> FALSE,
              word |->
                [op |-> v.op,
                 src1 |-> mir_pack_scalar_source(mod_0.mod, ~half_0, i.swizzle[0][comp]),
                 src2 |-> IF i.has_inline_constant
                          THEN [imm |-> scalar_inline_constant(i.inline_constant)]
                          ELSE mir_pack_scalar_source(mod_1.mod, ~half_1,
                                                      i.swizzle[1][comp]),
                 unknown |-> 0,
                 outmod |-> v.outmod,
                 output_full |-> is_full,
                 output_component |-> comp]]

\* The midgard_scalar_alu built, or failed when an assert stops the call.
\* src2 is the packed source, or [imm |-> ...] for an inline constant.
vector_to_scalar_alu(v, i) ==
    LET is_full == nir_alu_type_get_type_size(i.dest_type) = 32
        half_0 == nir_alu_type_get_type_size(i.src_types[0]) = 16
        half_1 == nir_alu_type_get_type_size(i.src_types[1]) = 16
        comp == component_from_mask(i.mask)
        mod_0 == mir_pack_mod(i, 0, TRUE)
        mod_1 == mir_pack_mod(i, 1, TRUE)
    IN  IF comp < 0 \/ mod_0.failed \/ mod_1.failed \/ (is_full /\ ~(comp < 4))
        THEN [failed |-> TRUE]
        ELSE [failed |-> FALSE,
              word |->
                [op |-> v.op,
                 src1 |-> mir_pack_scalar_source(mod_0.mod, ~half_0, i.swizzle[0][comp]),
                 src2 |-> IF i.has_inline_constant
                          THEN [imm |-> scalar_inline_constant(i.inline_constant)]
                          ELSE mir_pack_scalar_source(mod_1.mod, ~half_1,
                                                      i.swizzle[1][comp]),
                 unknown |-> 0,
                 outmod |-> v.outmod,
                 output_full |-> is_full,
                 output_component |-> IF is_full THEN Shl(comp, 1) ELSE comp]]

\* Swizzles of a source with elements of sz bits: 128 / sz components to select
Swizzles(sz) ==
    IF sz = 16
    THEN {[c \in 0 .. 7 |-> c], [c \in 0 .. 7 |-> 7 - c], [c \in 0 .. 7 |-> 5]}
    ELSE {[c \in 0 .. 7 |-> c % 4], [c \in 0 .. 7 |-> 3 - (c % 4)], [c \in 0 .. 7 |-> 2]}

\* Write masks with one lane, of a destination with elements of sz bits
SingleLaneMasks(sz) == {Pow2(k) : k \in 0 .. ((128 \div sz) - 1)}

FloatTypes == {[base |-> "nir_type_float", size |-> sz] : sz \in {16, 32}}

IntTypes == {[base |-> b, size |-> sz] : b \in {"nir_type_int", "nir_type_uint"},
                                         sz \in {16, 32}}

InlineConstants == {0, 1, 4095, 4096, 2730, 1365, 65535}

Flags2 == {<<FALSE, FALSE>>, <<TRUE, FALSE>>, <<FALSE, TRUE>>}

ScalarBase(o, dt, t0, t1, m, z0, z1, f, hc, c) ==
    [op |-> o, dest_type |-> dt,
     src_types |-> [n \in 0 .. (MIR_SRC_COUNT - 1) |-> IF n = 0 THEN t0 ELSE t1],
     src |-> Src4(0, IF hc THEN UNUSED ELSE 1, UNUSED, UNUSED),
     dest |-> 2,
     mask |-> m,
     swizzle |-> [n \in 0 .. 1 |-> IF n = 0 THEN z0 ELSE z1],
     src_abs |-> [n \in 0 .. 1 |-> o = "midgard_alu_op_fadd" /\ f[1] /\ n = 0],
     src_neg |-> [n \in 0 .. 1 |-> o = "midgard_alu_op_fadd" /\ f[2] /\ n = 1],
     src_shift |-> [n \in 0 .. 1 |-> o # "midgard_alu_op_fadd" /\ f[1]],
     outmod |-> IF f[2] THEN 2 ELSE 0,
     has_inline_constant |-> hc,
     inline_constant |-> c]

\* Float and integer instructions over every combination of element widths,
\* single-lane masks and swizzles, without an inline constant
IsScalarRegisterInstruction(i, o, Types) ==
    \E dt \in Types :
      \E t0 \in {t \in Types : t.base = dt.base}, t1 \in {t \in Types : t.base = dt.base} :
        \E m \in SingleLaneMasks(dt.size), z0 \in Swizzles(t0.size),
           z1 \in Swizzles(t1.size), f \in Flags2 :
            i = ScalarBase(o, dt, t0, t1, m, z0, z1, f, FALSE, 0)

\* The same with an inline constant in place of the second source
IsScalarConstantInstruction(i, o, Types, Constants) ==
    \E dt \in Types :
      \E t0 \in {t \in Types : t.base = dt.base}, t1 \in {t \in Types : t.base = dt.base} :
        \E m \in SingleLaneMasks(dt.size), z0 \in Swizzles(t0.size),
           f \in Flags2, k \in Constants :
            i = ScalarBase(o, dt, t0, t1, m, z0, [c \in 0 .. 7 |-> 1], f, TRUE, k)

\* One instruction with every 16-bit inline constant
IsEveryConstantInstruction(i) ==
    \E k \in 0 .. 65535 :
        i = ScalarBase("midgard_alu_op_iadd", [base |-> "nir_type_int", size |-> 32],
                       [base |-> "nir_type_int", size |-> 32],
                       [base |-> "nir_type_int", size |-> 32],
                       2, [c \in 0 .. 7 |-> c % 4], [c \in 0 .. 7 |-> 1],
                       <<FALSE, FALSE>>, TRUE, k)

InitScalar ==
    /\ ctx = DefaultContext
    /\ blocks = << >>
    /\ block = 0
    /\ bundles = << >>
    /\ bundle = [tag |-> TAG_ALU_4]
    /\ out = NoValue
    /\ emission = << >>
    /\ pc = "start"
    /\ \/ IsScalarRegisterInstruction(ins, "midgard_alu_op_fadd", FloatTypes)
       \/ IsScalarRegisterInstruction(ins, "midgard_alu_op_iadd", IntTypes)
       \/ IsScalarConstantInstruction(ins, "midgard_alu_op_fadd", FloatTypes, InlineConstants)
       \/ IsScalarConstantInstruction(ins, "midgard_alu_op_iadd", IntTypes, InlineConstants)
       \/ IsEveryConstantInstruction(ins)

VectorToScalar ==
    /\ pc = "start"
    /\ LET r == vector_to_scalar_alu(vector_alu_from_instr(ins), ins)
       IN  /\ ~r.failed
           /\ out' = r.word
    /\ pc' = "done"
    /\ UNCHANGED <<ctx, blocks, block, bundles, bundle, ins, emission>>

\* an assert of component_from_mask, mir_get_imod or vector_to_scalar_alu stops it
VectorToScalarAssert ==
    /\ pc = "start"
    /\ vector_to_scalar_alu(vector_alu_from_instr(ins), ins).failed
    /\ pc' = "assert"
    /\ UNCHANGED <<ctx, blocks, block, bundles, bundle, ins, out, emission>>

NextScalar == VectorToScalar \/ VectorToScalarAssert

SpecScalar == InitScalar /\ [][NextScalar]_vars


-----------------------------------------------------------------------------
(* Properties of vector_to_scalar_alu, checked under SpecScalar *)

\* A component index as a scalar source encodes it: doubled for a full (not
\* 16-bit) source
ScaledComponent(c, T) == IF T.size = 16 THEN c ELSE 2 * c

\* C6: with exactly one active lane k in the write mask, output_component is k
\* when the destination is not 32-bit and 2*k when it is, and the source
\* components come from swizzle entry k of operand 0 and of operand 1 (operand 1
\* when it is a register: an inline constant takes its place in src2, see C7)
C6_ScalarLane ==
    pc = "done"
        => \A k \in 0 .. 7 :
              ins.mask = Pow2(k)
                => /\ out.output_component =
                        IF ins.dest_type.size = 32 THEN 2 * k ELSE k
                   /\ out.output_full = (ins.dest_type.size = 32)
                   /\ out.src1.component =
                        ScaledComponent(ins.swizzle[0][k], ins.src_types[0])
                   /\ ~ins.has_inline_constant
                        => out.src2.component =
                             ScaledComponent(ins.swizzle[1][k], ins.src_types[1])

C6_Witness ==
    /\ pc = "done"
    /\ ins.mask = 4
    /\ ins.dest_type.size = 32
    /\ ~ins.has_inline_constant
    /\ out.output_component = 4
    /\ ins.swizzle[0][2] = 1
    /\ ins.src_types[0].size = 32
    /\ out.src1.component = 2
    /\ ins.swizzle[1][2] = 5
    /\ out.src2.component = 5

Field(n, lo, hi) == (n \div Pow2(lo)) % Pow2(hi - lo + 1)

Flip(c, j) == IF Bit(c, j) = 1 THEN c - Pow2(j) ELSE c + Pow2(j)

\* The src2 immediate vector_to_scalar_alu produces for this instruction with
\* inline constant c in place of its own
ImmediateFor(c) ==
    LET i == [ins EXCEPT !.inline_constant = c]
    IN  vector_to_scalar_alu(vector_alu_from_instr(i), i).word.src2.imm

\* Result bits lo..hi stay the same whichever constant bit outside From changes
DependsOnlyOn(lo, hi, From) ==
    \A j \in (0 .. 15) \ From :
        Field(ImmediateFor(Flip(ins.inline_constant, j)), lo, hi)
            = Field(out.src2.imm, lo, hi)

\* C7 (as claimed): the second-operand field depends only on the low 12 bits
\* of the constant; result bits [1:0] come from constant bits [11:9], result
\* bit 2 from [8:6], result bits [5:3] from [5:2], result bits [11:6] from the
\* low 6 bits
C7_Original ==
    (pc = "done" /\ ins.has_inline_constant)
        => /\ DependsOnlyOn(0, 15, 0 .. 11)
           /\ DependsOnlyOn(0, 1, 9 .. 11)
           /\ DependsOnlyOn(2, 2, 6 .. 8)
           /\ DependsOnlyOn(3, 5, 2 .. 5)
           /\ DependsOnlyOn(6, 11, 0 .. 5)

\* C7 (amended): the second-operand field is a function of the low 11 bits of
\* the constant alone: result bits [1:0] are constant bits [10:9], result bit 2
\* is constant bit 8, result bits [5:3] are constant bits [7:5], result bits
\* [11:6] are constant bits [5:0], and no higher result bit is set
C7_Amended ==
    (pc = "done" /\ ins.has_inline_constant)
        => /\ DOMAIN out.src2 = {"imm"}
           /\ out.src2.imm \in 0 .. 4095
           /\ Field(out.src2.imm, 0, 1) = Field(ins.inline_constant, 9, 10)
           /\ Field(out.src2.imm, 2, 2) = Field(ins.inline_constant, 8, 8)
           /\ Field(out.src2.imm, 3, 5) = Field(ins.inline_constant, 5, 7)
           /\ Field(out.src2.imm, 6, 11) = Field(ins.inline_constant, 0, 5)

\* constant 0xAAA with a float instruction: immediate 0xAA9
C7_Witness ==
    /\ pc = "done"
    /\ ins.has_inline_constant
    /\ ins.op = "midgard_alu_op_fadd"
    /\ ins.inline_constant = 2730
    /\ out.src2.imm = 2729


-----------------------------------------------------------------------------
(* mir_pack_mod on one operand of an instruction *)

ModOps == {"midgard_alu_op_iadd", "midgard_alu_op_fadd"}
ModTypes == {[base |-> b, size |-> sz] :
                b \in {"nir_type_int", "nir_type_uint", "nir_type_float"}, sz \in {16, 32}}

\* ins holds the instruction, the operand index and the scalar flag that
\* mir_pack_mod is called with
InitMod ==
    /\ ctx = DefaultContext
    /\ blocks = << >>
    /\ block = 0
    /\ bundles = << >>
    /\ bundle = [tag |-> TAG_ALU_4]
    /\ out = NoValue
    /\ emission = << >>
    /\ pc = "start"
    /\ \E o \in ModOps, dt \in ModTypes, t0 \in ModTypes, t1 \in ModTypes,
          shift \in [0 .. 1 -> BOOLEAN], neg \in BOOLEAN, n \in 0 .. 1, scalar \in BOOLEAN :
          ins = [instr |-> [ScalarBase(o, dt, t0, t1, 1, [c \in 0 .. 7 |-> 0],
                                       [c \in 0 .. 7 |-> 0], <<FALSE, FALSE>>, FALSE, 0)
                              EXCEPT !.src_shift = shift,
                                     !.src_abs = [k \in 0 .. 1 |-> ~neg],
                                     !.src_neg = [k \in 0 .. 1 |-> neg]],
                 n |-> n, scalar |-> scalar]

PackMod ==
    /\ pc = "start"
    /\ \E r \in {mir_pack_mod(ins.instr, ins.n, ins.scalar)} :
          /\ ~r.failed
          /\ out' = [mod |-> r.mod]
    /\ pc' = "done"
    /\ UNCHANGED <<ctx, blocks, block, bundles, bundle, ins, emission>>

\* assert(!shift) of mir_get_imod stops the call
PackModAssert ==
    /\ pc = "start"
    /\ mir_pack_mod(ins.instr, ins.n, ins.scalar).failed
    /\ pc' = "assert"
    /\ UNCHANGED <<ctx, blocks, block, bundles, bundle, ins, out, emission>>

NextMod == PackMod \/ PackModAssert

SpecMod == InitMod /\ [][NextMod]_vars

-----------------------------------------------------------------------------
(* Properties of mir_pack_mod, checked under SpecMod *)

\* The operand of the call: its shift flag, whether it is read at half the
\* width of the instruction, whether its type is a signed integer
OperandShift == ins.instr.src_shift[ins.n]
OperandHalf ==
    2 * ins.instr.src_types[ins.n].size =
        Max(ins.instr.dest_type.size,
            Max(ins.instr.src_types[0].size, ins.instr.src_types[1].size))
OperandSigned == ins.instr.src_types[ins.n].base = "nir_type_int"
IntegerVectorCall ==
    /\ pc # "start"
    /\ ins.instr.op = "midgard_alu_op_iadd"
    /\ ~ins.scalar

\* The modifier that sign/zero extension gives the operand
Extension == IF OperandSigned THEN midgard_int_sign_extend ELSE midgard_int_zero_extend

\* C13 as stated: for an operand of an integer opcode in the vector encoding,
\* a requested shift gives the left-shift modifier; otherwise a read that is
\* not half-width gives the plain modifier; otherwise the modifier is
\* sign-extend for a signed source and zero-extend for any other.
C13_Original ==
    IntegerVectorCall =>
        /\ pc = "done"
        /\ out.mod = IF OperandShift THEN midgard_int_shift
                     ELSE IF ~OperandHalf THEN midgard_int_normal
                     ELSE Extension

\* C13 as amended: the width is tested first. A read that is not half-width
\* gives the plain modifier and must not request a shift (asserted); a
\* half-width read gives left-shift when a shift is requested, otherwise
\* sign-extend for a signed source and zero-extend for any other.
C13_Amended ==
    IntegerVectorCall =>
        IF ~OperandHalf
        THEN IF OperandShift THEN pc = "assert" /\ out = NoValue
             ELSE pc = "done" /\ out.mod = midgard_int_normal
        ELSE /\ pc = "done"
             /\ out.mod = IF OperandShift THEN midgard_int_shift ELSE Extension

\* a signed 16-bit operand of a 32-bit integer instruction, no shift: sign-extend
C13_Witness ==
    /\ IntegerVectorCall
    /\ pc = "done"
    /\ OperandHalf
    /\ OperandSigned
    /\ ~OperandShift
    /\ out.mod = midgard_int_sign_extend


-----------------------------------------------------------------------------
(* mir_pack_swizzle_64, mir_pack_swizzle *)

COMPONENT_X == 0
COMPONENT_Y == 1
COMPONENT_Z == 2
COMPONENT_W == 3

\* The loop of mir_pack_swizzle_64 from lane i on
RECURSIVE swizzle_64_from(_, _, _, _)
swizzle_64_from(swizzle, max_component, i, packed) ==
    IF i >= 2 THEN [failed |-> FALSE, packed |-> packed]
    ELSE IF ~(swizzle[i] <= max_component) THEN [failed |-> TRUE, packed |-> packed]
    ELSE LET a == IF BitAnd(swizzle[i], 1) # 0
                  THEN BitOr(Shl(COMPONENT_W, 2), COMPONENT_Z)
                  ELSE BitOr(Shl(COMPONENT_Y, 2), COMPONENT_X)
         IN  swizzle_64_from(swizzle, max_component, i + 1, BitOr(packed, Shl(a, i * 4)))

mir_pack_swizzle_64(swizzle, max_component) == swizzle_64_from(swizzle, max_component, 0, 0)

\* The 64-bit register mode of mir_pack_swizzle without assert(lo == hi)
pack_swizzle_reg_mode_64_mixing(mask, swizzle, sz) ==
    IF ~(sz = 64 \/ sz = 32) THEN [failed |-> TRUE]
    ELSE LET components == IF sz = 32 THEN 4 ELSE 2
             p64 == mir_pack_swizzle_64(swizzle, components)
             lo == swizzle[0] >= COMPONENT_Z
             hi == swizzle[1] >= COMPONENT_Z
         IN  IF p64.failed THEN [failed |-> TRUE]
             ELSE IF sz = 32
             THEN [failed |-> FALSE, packed |-> p64.packed,
                   rep_low |-> IF BitAnd(mask, 1) # 0 THEN lo ELSE hi,
                   rep_high |-> FALSE]
             ELSE [failed |-> FALSE, packed |-> p64.packed,
                   rep_low |-> FALSE, rep_high |-> FALSE]

\* mir_pack_swizzle, reg_mode == midgard_reg_mode_64; rep_low and rep_high
\* start out false in the caller
pack_swizzle_reg_mode_64(mask, swizzle, sz) ==
    IF ~(sz = 64 \/ sz = 32) THEN [failed |-> TRUE]
    ELSE LET components == IF sz = 32 THEN 4 ELSE 2
             p64 == mir_pack_swizzle_64(swizzle, components)
             lo == swizzle[0] >= COMPONENT_Z
             hi == swizzle[1] >= COMPONENT_Z
         IN  IF p64.failed THEN [failed |-> TRUE]
             ELSE IF sz = 32
             THEN IF BitAnd(mask, 1) # 0
                  THEN IF BitAnd(mask, 2) # 0 /\ lo # hi
                       THEN [failed |-> TRUE]
                       ELSE [failed |-> FALSE, packed |-> p64.packed,
                             rep_low |-> lo, rep_high |-> FALSE]
                  ELSE [failed |-> FALSE, packed |-> p64.packed,
                        rep_low |-> hi, rep_high |-> FALSE]
             ELSE [failed |-> FALSE, packed |-> p64.packed,
                   rep_low |-> FALSE, rep_high |-> FALSE]

\* ffs(): 1 + the index of the lowest set bit, 0 for 0
RECURSIVE ffs(_)
ffs(mask) ==
    IF mask = 0 THEN 0
    ELSE IF mask % 2 = 1 THEN 1
    ELSE 1 + ffs(mask \div 2)

\* The loop over the four lanes c .. last of the destination half
RECURSIVE swizzle_lanes_from(_, _, _, _, _, _)
swizzle_lanes_from(mask, swizzle, upper, c, last, packed) ==
    IF c >= last THEN [failed |-> FALSE, packed |-> packed]
    ELSE LET v == swizzle[c]
             t_upper == v > 3
         IN  IF BitAnd(mask, Shl(1, c)) # 0 /\ (t_upper # upper \/ ~(v <= 7))
             THEN [failed |-> TRUE, packed |-> packed]
             ELSE swizzle_lanes_from(mask, swizzle, upper, c + 1, last,
                                     BitOr(packed, Shl(BitAnd(v, 3), 2 * (c % 4))))

\* mir_pack_swizzle, reg_mode below 64 bits
pack_swizzle_reg_mode_sub64(mask, swizzle, sz, reg_mode, op_channeled) ==
    LET first == IF mask # 0 THEN ffs(mask) - 1 ELSE 0
        upper == swizzle[first] > 3
        dest_up == ~op_channeled /\ first >= 4
        lanes == swizzle_lanes_from(mask, swizzle, upper, IF dest_up THEN 4 ELSE 0,
                                    IF dest_up THEN 8 ELSE 4, 0)
    IN  IF upper /\ mask # 0 /\ ~(sz <= 16) THEN [failed |-> TRUE]
        ELSE IF lanes.failed THEN [failed |-> TRUE]
        ELSE IF reg_mode = "midgard_reg_mode_16" /\ sz = 16
        THEN [failed |-> FALSE, packed |-> lanes.packed,
              rep_low |-> ~upper, rep_high |-> upper]
        ELSE IF reg_mode = "midgard_reg_mode_16" /\ sz = 8
        THEN [failed |-> FALSE, packed |-> lanes.packed,
              rep_low |-> upper, rep_high |-> upper]
        ELSE IF reg_mode = "midgard_reg_mode_32"
        THEN [failed |-> FALSE, packed |-> lanes.packed,
              rep_low |-> upper, rep_high |-> FALSE]
        ELSE [failed |-> TRUE]

mir_pack_swizzle(mask, swizzle, T, reg_mode, op_channeled) ==
    LET sz == nir_alu_type_get_type_size(T)
    IN  IF reg_mode = "midgard_reg_mode_64"
        THEN pack_swizzle_reg_mode_64(mask, swizzle, sz)
        ELSE pack_swizzle_reg_mode_sub64(mask, swizzle, sz, reg_mode, op_channeled)

\* Swizzles of a 64-bit instruction: two logical lanes a and b, which the
\* inputs take in and out of range
Swizzle64(a, b) == [c \in 0 .. 7 |-> IF c = 0 THEN a ELSE IF c = 1 THEN b ELSE 0]

\* Swizzles of narrower instructions: within one half, across the halves, and
\* with an index past the last component
SwizzlesSub64 ==
    {[c \in 0 .. 7 |-> c], [c \in 0 .. 7 |-> c % 4], [c \in 0 .. 7 |-> 4 + (c % 4)],
     [c \in 0 .. 7 |-> 7 - c], [c \in 0 .. 7 |-> IF c = 2 THEN 6 ELSE 1],
     [c \in 0 .. 7 |-> IF c = 5 THEN 9 ELSE 5]}

RegModeTypes ==
    {<<"midgard_reg_mode_8", 8>>, <<"midgard_reg_mode_16", 8>>,
     <<"midgard_reg_mode_16", 16>>, <<"midgard_reg_mode_32", 16>>,
     <<"midgard_reg_mode_32", 32>>}

\* ins holds the arguments of mir_pack_swizzle
InitSwizzle ==
    /\ ctx = DefaultContext
    /\ blocks = << >>
    /\ block = 0
    /\ bundles = << >>
    /\ bundle = [tag |-> TAG_ALU_4]
    /\ out = NoValue
    /\ emission = << >>
    /\ pc = "start"
    /\ \/ \E m \in 0 .. 3, sz \in {16, 32, 64}, ch \in BOOLEAN, a \in 0 .. 5, b \in 0 .. 5 :
            ins = [mask |-> m, swizzle |-> Swizzle64(a, b),
                   T |-> [base |-> "nir_type_uint", size |-> sz],
                   reg_mode |-> "midgard_reg_mode_64", op_channeled |-> ch]
       \/ \E m \in 0 .. 255, rt \in RegModeTypes, ch \in BOOLEAN, z \in SwizzlesSub64 :
            ins = [mask |-> m, swizzle |-> z,
                   T |-> [base |-> "nir_type_uint", size |-> rt[2]],
                   reg_mode |-> rt[1], op_channeled |-> ch]

PackSwizzle ==
    /\ pc = "start"
    /\ LET r == mir_pack_swizzle(ins.mask, ins.swizzle, ins.T, ins.reg_mode,
                                 ins.op_channeled)
       IN  /\ ~r.failed
           /\ out' = [packed |-> r.packed, rep_low |-> r.rep_low, rep_high |-> r.rep_high]
    /\ pc' = "done"
    /\ UNCHANGED <<ctx, blocks, block, bundles, bundle, ins, emission>>

\* an assert or unreachable() stops mir_pack_swizzle: nothing is returned
PackSwizzleAssert ==
    /\ pc = "start"
    /\ mir_pack_swizzle(ins.mask, ins.swizzle, ins.T, ins.reg_mode,
                        ins.op_channeled).failed
    /\ pc' = "assert"
    /\ UNCHANGED <<ctx, blocks, block, bundles, bundle, ins, out, emission>>

NextSwizzle == PackSwizzle \/ PackSwizzleAssert

SpecSwizzle == InitSwizzle /\ [][NextSwizzle]_vars

\* C8: in 64-bit register mode with a 32-bit element, when lanes 0 and 1 are
\* both active in the mask and swizzle[0], swizzle[1] lie on different sides of
\* component Z, the packing stops in an assertion and returns nothing
C8_MixedHalves64 ==
    (/\ pc # "start"
     /\ ins.reg_mode = "midgard_reg_mode_64"
     /\ ins.T.size = 32
     /\ Bit(ins.mask, 0) = 1
     /\ Bit(ins.mask, 1) = 1
     /\ (ins.swizzle[0] < COMPONENT_Z) # (ins.swizzle[1] < COMPONENT_Z))
        => (pc = "assert" /\ out = NoValue)

C8_Witness ==
    /\ pc = "assert"
    /\ ins.reg_mode = "midgard_reg_mode_64"
    /\ ins.T.size = 32
    /\ ins.mask = 3
    /\ ins.swizzle[0] = 1
    /\ ins.swizzle[1] = 2
    /\ out = NoValue

ActiveLanes(mask) == {c \in 0 .. 7 : Bit(mask, c) = 1}

\* C11: in a register mode below 64 bits, with a non-empty mask, whenever two
\* active lanes of the mask (among all 8) take their swizzle source from
\* different halves (one from 0..3, one from 4..7), mir_pack_swizzle stops in
\* an assertion and packs nothing.
C11_SameHalf ==
    (/\ pc # "start"
     /\ ins.reg_mode # "midgard_reg_mode_64"
     /\ ins.mask # 0
     /\ \E c, d \in ActiveLanes(ins.mask) : (ins.swizzle[c] > 3) # (ins.swizzle[d] > 3))
        => (pc = "assert" /\ out = NoValue)

\* The largest component index an element of sz bits has in a 128-bit register
\* of the 64-bit mode: 1 for a 64-bit element, 3 for a 32-bit element
LastComponent64(sz) == IF sz = 32 THEN COMPONENT_W ELSE COMPONENT_Y

\* C12: in 64-bit register mode, when swizzle[0] or swizzle[1] is a component
\* index out of range for the element (above 1 for a 64-bit element, above 3
\* for a 32-bit element), mir_pack_swizzle stops in an assertion: no
\* out-of-range index is packed.
C12_OutOfRange64 ==
    (/\ pc # "start"
     /\ ins.reg_mode = "midgard_reg_mode_64"
     /\ ins.T.size \in {32, 64}
     /\ \E n \in 0 .. 1 : ins.swizzle[n] > LastComponent64(ins.T.size))
        => (pc = "assert" /\ out = NoValue)


-----------------------------------------------------------------------------
(* mir_pack_mask_alu, mir_pack_vector_srcs, mir_lower_roundmode *)

\* F(v), with v computed once however often F uses it
Bind(v, F(_)) == F(v)

midgard_dest_override_lower == 0
midgard_dest_override_upper == 1
midgard_dest_override_none == 2

\* __builtin_ctz of a non-zero mask
ctz(mask) == ffs(mask) - 1

mir_components_for_bits(bits) == 128 \div bits

\* -1 when the destination has the size of the instruction, else the number of
\* lanes the mask is shifted by: half the vector when the mask starts there
mir_upper_override(i, inst_size) ==
    LET type_size == nir_alu_type_get_type_size(i.dest_type)
        threshold == Shr(mir_components_for_bits(type_size), 1)
    IN  IF type_size = inst_size THEN -1
        ELSE IF ctz(i.mask) >= threshold THEN threshold
        ELSE 0

RECURSIVE expand_lanes(_, _, _, _)
expand_lanes(mask, factor, channels, n) ==
    IF n >= channels THEN 0
    ELSE BitOr(IF Bit(mask, n) = 1 THEN Shl(Pow2(factor) - 1, factor * n) ELSE 0,
               expand_lanes(mask, factor, channels, n + 1))

\* every bit of mask repeated 8 >> log2_channels times
expand_writemask(mask, log2_channels) ==
    expand_lanes(mask, Shr(8, log2_channels), Pow2(log2_channels), 0)

\* alu with dest_override and mask set as mir_pack_mask_alu sets them
mir_pack_mask_alu(i, alu) ==
    LET inst_size == max_bitsize_for_alu(i)
        upper_shift == mir_upper_override(i, inst_size)
        effective == IF upper_shift >= 0 THEN Shr(i.mask, upper_shift) ELSE i.mask
        override == IF upper_shift >= 0
                    THEN IF upper_shift # 0 THEN midgard_dest_override_upper
                         ELSE midgard_dest_override_lower
                    ELSE midgard_dest_override_none
    IN  [alu EXCEPT !.dest_override = override,
                    !.mask = IF inst_size = 32 THEN expand_writemask(effective, 2)
                             ELSE IF inst_size = 64 THEN expand_writemask(effective, 1)
                             ELSE effective]

ChanneledOps == {"midgard_alu_op_fdot4"}

\* The midgard_vector_alu_src of source n, or failed when an assert stops it
pack_vector_src(i, n) ==
    LET base_size == max_bitsize_for_alu(i)
        sz == nir_alu_type_get_type_size(i.src_types[n])
        half == (sz = Shr(base_size, 1))
    IN  IF ~(sz = base_size \/ half) THEN [failed |-> TRUE]
        ELSE Bind(mir_pack_swizzle(i.mask, i.swizzle[n], i.src_types[n],
                                   reg_mode_for_bitsize(base_size), i.op \in ChanneledOps),
                  LAMBDA swz :
                    Bind(mir_pack_mod(i, n, FALSE),
                         LAMBDA mod :
                           IF swz.failed \/ mod.failed THEN [failed |-> TRUE]
                           ELSE [failed |-> FALSE,
                                 src |-> [mod |-> mod.mod, rep_low |-> swz.rep_low,
                                          rep_high |-> swz.rep_high, half |-> half,
                                          swizzle |-> swz.packed]]))

\* alu with src1 and src2 packed, or failed
mir_pack_vector_srcs(i, alu) ==
    LET skip(n) == (i.has_inline_constant /\ n = 1) \/ i.src[n] = UNUSED
    IN  Bind(IF skip(0) THEN [failed |-> FALSE, src |-> alu.src1] ELSE pack_vector_src(i, 0),
             LAMBDA p0 :
               IF p0.failed THEN [failed |-> TRUE]
               ELSE Bind(IF skip(1) THEN [failed |-> FALSE, src |-> alu.src2]
                         ELSE pack_vector_src(i, 1),
                         LAMBDA p1 :
                           IF p1.failed THEN [failed |-> TRUE]
                           ELSE [failed |-> FALSE,
                                 alu |-> [alu EXCEPT !.src1 = p0.src, !.src2 = p1.src]]))

\* Opcodes with rounding-mode variants: the base (rte) opcode and its followers
RoundingOps ==
    <<"midgard_alu_op_f2i_rte", "midgard_alu_op_f2i_rtz",
      "midgard_alu_op_f2i_rtn", "midgard_alu_op_f2i_rtp">>

\* ins->op += ins->roundmode for an opcode with MIDGARD_ROUNDS
mir_lower_roundmode(op, roundmode) ==
    IF op = RoundingOps[1]
    THEN IF roundmode <= 3 THEN [failed |-> FALSE, op |-> RoundingOps[1 + roundmode]]
         ELSE [failed |-> TRUE]
    ELSE [failed |-> FALSE, op |-> op]

-----------------------------------------------------------------------------
(* emit_alu_bundle *)

REGISTER_UNUSED == 24
SSA_FIXED_SHIFT == 24

\* The node index that stands for the fixed register reg, and the way back
SSA_FIXED_REGISTER(reg) == Shl(1 + reg, SSA_FIXED_SHIFT) + 1
SSA_REG_FROM_FIXED(reg) == Shr(reg - (reg % 2), SSA_FIXED_SHIFT) - 1

midgard_is_branch_unit(unit) == unit \in {"ALU_ENAB_BRANCH", "ALU_ENAB_BR_COMPACT"}
UNITS_ANY_VECTOR == {"UNIT_VMUL", "UNIT_VADD", "UNIT_VLUT"}

\* reg_info taking the register field from bit 12 of the inline constant up
reg_info_from_bit_12(i) ==
    [form |-> "midgard_reg_info",
     src1_reg |-> IF i.src[0] = UNUSED THEN REGISTER_UNUSED
                  ELSE SSA_REG_FROM_FIXED(i.src[0]),
     src2_reg |-> IF i.has_inline_constant THEN Shr(i.inline_constant, 12)
                  ELSE IF i.src[1] # UNUSED THEN SSA_REG_FROM_FIXED(i.src[1])
                  ELSE REGISTER_UNUSED,
     src2_imm |-> i.has_inline_constant,
     out_reg |-> IF i.dest = UNUSED THEN REGISTER_UNUSED
                 ELSE SSA_REG_FROM_FIXED(i.dest)]

\* The midgard_reg_info of one instruction
reg_info(i) ==
    [form |-> "midgard_reg_info",
     src1_reg |-> IF i.src[0] = UNUSED THEN REGISTER_UNUSED
                  ELSE SSA_REG_FROM_FIXED(i.src[0]),
     src2_reg |-> IF i.has_inline_constant THEN Shr(i.inline_constant, 11)
                  ELSE IF i.src[1] # UNUSED THEN SSA_REG_FROM_FIXED(i.src[1])
                  ELSE REGISTER_UNUSED,
     src2_imm |-> i.has_inline_constant,
     out_reg |-> IF i.dest = UNUSED THEN REGISTER_UNUSED
                 ELSE SSA_REG_FROM_FIXED(i.dest)]

\* The first loop running from the last instruction to the first
RECURSIVE emit_reg_words_last_first(_, _, _)
emit_reg_words_last_first(instructions, n, em) ==
    IF n > Len(instructions) THEN em
    ELSE IF instructions[n].compact_branch
    THEN emit_reg_words_last_first(instructions, n + 1, em)
    ELSE Append(emit_reg_words_last_first(instructions, n + 1, em),
                reg_info(instructions[n]))

\* The first loop of emit_alu_bundle: one register word for every instruction
\* from n on that is not a compact branch
RECURSIVE emit_reg_words(_, _, _)
emit_reg_words(instructions, n, em) ==
    IF n > Len(instructions) THEN em
    ELSE IF instructions[n].compact_branch THEN emit_reg_words(instructions, n + 1, em)
    ELSE emit_reg_words(instructions, n + 1, Append(em, reg_info(instructions[n])))

\* mir_lower_inverts then mir_lower_roundmode, both writing ins->op
lower_alu_op(i) ==
    Bind(mir_lower_inverts(i.op, i.src_invert),
         LAMBDA inverted :
           Bind(mir_lower_roundmode(inverted, i.roundmode),
                LAMBDA rounded :
                  IF rounded.failed
                  THEN [failed |-> TRUE, ins |-> [i EXCEPT !.op = inverted]]
                  ELSE [failed |-> FALSE, ins |-> [i EXCEPT !.op = rounded.op]]))

\* One iteration of the second loop of emit_alu_bundle
emit_alu_body(i, blks, name, tag, em) ==
    Bind(IF i.compact_branch THEN [failed |-> FALSE, ins |-> i] ELSE lower_alu_op(i),
         LAMBDA lowered :
           Bind(lowered.ins,
                LAMBDA l :
                  IF lowered.failed THEN [failed |-> TRUE, emission |-> em, ins |-> l]
                  ELSE IF midgard_is_branch_unit(l.unit)
                  THEN Bind(emit_branch(l, blks, name, tag, em),
                            LAMBDA b : [failed |-> b.failed, emission |-> b.emission,
                                        ins |-> l])
                  ELSE IF l.unit \in UNITS_ANY_VECTOR
                  THEN Bind(mir_pack_vector_srcs(l, mir_pack_mask_alu(l, vector_alu_from_instr(l))),
                            LAMBDA source :
                              IF source.failed
                              THEN [failed |-> TRUE, emission |-> em, ins |-> l]
                              ELSE [failed |-> FALSE, ins |-> l,
                                    emission |-> Append(em, [form |-> "midgard_vector_alu",
                                                             word |-> source.alu])])
                  ELSE Bind(vector_to_scalar_alu(vector_alu_from_instr(l), l),
                            LAMBDA source :
                              IF source.failed
                              THEN [failed |-> TRUE, emission |-> em, ins |-> l]
                              ELSE [failed |-> FALSE, ins |-> l,
                                    emission |-> Append(em, [form |-> "midgard_scalar_alu",
                                                             word |-> source.word])])))

\* The second loop from instruction n on: the instructions as the loop leaves
\* them and the buffer as it stands when the loop ends or an assert stops it
RECURSIVE emit_alu_bodies(_, _, _, _, _, _)
emit_alu_bodies(instructions, n, blks, name, tag, em) ==
    IF n > Len(instructions)
    THEN [failed |-> FALSE, emission |-> em, instructions |-> instructions]
    ELSE Bind(emit_alu_body(instructions[n], blks, name, tag, em),
              LAMBDA r :
                IF r.failed
                THEN [failed |-> TRUE, emission |-> r.emission,
                      instructions |-> [instructions EXCEPT ![n] = r.ins]]
                ELSE emit_alu_bodies([instructions EXCEPT ![n] = r.ins], n + 1,
                                     blks, name, tag, r.emission))

\* n zero bytes
zero_bytes(n) == [k \in 1 .. n |-> [form |-> "padding", byte |-> 0]]

\* emit_alu_bundle writing the control word at the start of the buffer
\* instead of after what the buffer holds
emit_alu_bundle_rewinds(blks, name, b, em, lookahead) ==
    Bind(emit_alu_bodies(b.instructions, 1, blks, name, b.tag,
                         emit_reg_words(b.instructions, 1,
                                        <<[form |-> "control", word |-> BitOr(b.control, lookahead)]>>)),
         LAMBDA bodies :
           IF bodies.failed
           THEN [failed |-> TRUE, emission |-> bodies.emission,
                 instructions |-> bodies.instructions]
           ELSE [failed |-> FALSE, instructions |-> bodies.instructions,
                 emission |-> bodies.emission \o zero_bytes(b.padding)
                              \o IF b.has_embedded_constants
                                 THEN <<[form |-> "midgard_constants",
                                         constants |-> b.constants]>>
                                 ELSE << >>])

emit_alu_bundle(blks, name, b, em, lookahead) ==
    Bind(emit_alu_bodies(b.instructions, 1, blks, name, b.tag,
                         emit_reg_words(b.instructions, 1,
                                        Append(em, [form |-> "control", word |-> BitOr(b.control, lookahead)]))),
         LAMBDA bodies :
           IF bodies.failed
           THEN [failed |-> TRUE, emission |-> bodies.emission,
                 instructions |-> bodies.instructions]
           ELSE [failed |-> FALSE, instructions |-> bodies.instructions,
                 emission |-> bodies.emission \o zero_bytes(b.padding)
                              \o IF b.has_embedded_constants
                                 THEN <<[form |-> "midgard_constants",
                                         constants |-> b.constants]>>
                                 ELSE << >>])

-----------------------------------------------------------------------------
(* emit_binary_bundle: the load/store case *)

OP_IS_STORE(op) == op \in {"midgard_op_st_int4"}
OP_IS_ATOMIC(op) == op \in {"midgard_op_atomic_add"}
OP_IS_UBO_READ(op) == op \in {"midgard_op_ld_ubo_int4"}
LDST_NOP == [form |-> "LDST_NOP"]

mir_ldst_imm_shift(op) == IF OP_IS_UBO_READ(op) THEN 3 ELSE 1

\* The packed register select of a load/store argument, kept as its parts
midgard_ldst_reg(reg, component, size) ==
    [reg |-> reg, component |-> component, size |-> size]

RECURSIVE swizzle_ldst_from(_, _)
swizzle_ldst_from(swizzle, c) ==
    IF c >= 4 THEN [failed |-> FALSE, packed |-> 0]
    ELSE IF ~(swizzle[c] <= 3) THEN [failed |-> TRUE]
    ELSE LET rest == swizzle_ldst_from(swizzle, c + 1)
         IN  IF rest.failed THEN rest
             ELSE [failed |-> FALSE, packed |-> BitOr(Shl(swizzle[c], 2 * c), rest.packed)]

\* ins->load_store.swizzle after mir_pack_swizzle_ldst
mir_pack_swizzle_ldst(i) ==
    LET r == swizzle_ldst_from(i.swizzle[0], 0)
    IN  IF r.failed THEN r
        ELSE [failed |-> FALSE, packed |-> BitOr(i.load_store.swizzle, r.packed)]

\* One iteration of the loop of the load/store case: the instruction with its
\* load_store fields written
pack_load_store(i) ==
    LET m == mir_pack_ldst_mask(i)
        z == IF OP_IS_ATOMIC(i.op) THEN [failed |-> FALSE, packed |-> i.load_store.swizzle]
             ELSE mir_pack_swizzle_ldst(i)
        offset == i.constants_u32[0]
        shift == mir_ldst_imm_shift(i.op)
        upper_shift == 10 - shift
        ls == [i.load_store EXCEPT !.mask = m.packed, !.swizzle = z.packed]
    IN  IF m.failed \/ z.failed THEN [failed |-> TRUE, ins |-> i]
        ELSE IF offset # 0
        THEN [failed |-> FALSE,
              ins |-> [i EXCEPT !.load_store =
                         [ls EXCEPT !.varying_parameters =
                                       BitOr(@, Shl(BitAnd(offset, Shl(1, upper_shift) - 1), shift)),
                                    !.address = BitOr(@, Shr(offset, upper_shift))]]]
        ELSE [failed |-> FALSE, ins |-> [i EXCEPT !.load_store = ls]]

RECURSIVE pack_load_stores(_, _)
pack_load_stores(instructions, n) ==
    IF n > Len(instructions) THEN [failed |-> FALSE, instructions |-> instructions]
    ELSE Bind(pack_load_store(instructions[n]),
              LAMBDA r :
                IF r.failed THEN [failed |-> TRUE, instructions |-> instructions]
                ELSE pack_load_stores([instructions EXCEPT ![n] = r.ins], n + 1))

load_store_from_instr(i) ==
    LET ldst == i.load_store
        arg(n) == IF i.src[n] # UNUSED
                  THEN <<midgard_ldst_reg(SSA_REG_FROM_FIXED(i.src[n]), i.swizzle[n][0],
                                          nir_alu_type_get_type_size(i.src_types[n]))>>
                  ELSE << >>
    IN  [form |-> "midgard_load_store_word",
         op |-> i.op,
         reg |-> IF OP_IS_STORE(i.op) THEN SSA_REG_FROM_FIXED(i.src[0]) % 2
                 ELSE SSA_REG_FROM_FIXED(i.dest),
         mask |-> ldst.mask,
         swizzle |-> IF OP_IS_ATOMIC(i.op)
                     THEN BitOr(BitAnd(i.swizzle[3][0], 3),
                                Shl(SSA_REG_FROM_FIXED(i.src[3]) % 2, 2))
                     ELSE ldst.swizzle,
         varying_parameters |-> ldst.varying_parameters,
         address |-> ldst.address,
         arg_1 |-> <<ldst.arg_1>> \o arg(1),
         arg_2 |-> <<ldst.arg_2>> \o arg(2)]

emit_load_store_bundle(b, em, next_tag) ==
    Bind(pack_load_stores(b.instructions, 1),
         LAMBDA packed :
           IF packed.failed
           THEN [failed |-> TRUE, emission |-> em, instructions |-> packed.instructions]
           ELSE [failed |-> FALSE, instructions |-> packed.instructions,
                 emission |->
                   Append(em, [form |-> "midgard_load_store",
                               type |-> b.tag,
                               next_type |-> next_tag,
                               word1 |-> load_store_from_instr(packed.instructions[1]),
                               word2 |-> IF Len(packed.instructions) = 2
                                         THEN load_store_from_instr(packed.instructions[2])
                                         ELSE LDST_NOP])])

-----------------------------------------------------------------------------
(* emit_binary_bundle: the texture case *)

mir_op_computes_derivatives(stage, op) ==
    /\ stage = "MESA_SHADER_FRAGMENT"
    /\ op \in {"TEXTURE_OP_NORMAL", "TEXTURE_OP_DFDX", "TEXTURE_OP_DFDY"}

midgard_sampler_type(t) ==
    CASE nir_alu_type_get_base_type(t) = "nir_type_float" ->
            [failed |-> FALSE, type |-> "MALI_SAMPLER_FLOAT"]
      [] nir_alu_type_get_base_type(t) = "nir_type_int" ->
            [failed |-> FALSE, type |-> "MALI_SAMPLER_SIGNED"]
      [] nir_alu_type_get_base_type(t) = "nir_type_uint" ->
            [failed |-> FALSE, type |-> "MALI_SAMPLER_UNSIGNED"]
      [] OTHER -> [failed |-> TRUE]

\* texture.swizzle for n = 0 and texture.in_reg_swizzle for n = 1
mir_pack_swizzle_tex(i, n) == swizzle_ldst_from(i.swizzle[n], 0)

\* ins->texture as the texture case leaves it before texture_word_from_instr
pack_texture(c, bs, idx, i, tag, next_tag) ==
    LET override == mir_upper_override(i, 32)
        swizzle == mir_pack_swizzle_tex(i, 0)
        in_reg_swizzle == mir_pack_swizzle_tex(i, 1)
        osz == nir_alu_type_get_type_size(i.dest_type)
        isz == nir_alu_type_get_type_size(i.src_types[1])
        sampler == midgard_sampler_type(i.dest_type)
        derivatives == mir_op_computes_derivatives(c.stage, i.op)
    IN  IF swizzle.failed \/ in_reg_swizzle.failed
           \/ ~(osz = 32 \/ osz = 16) \/ ~(isz = 32 \/ isz = 16) \/ sampler.failed
        THEN [failed |-> TRUE]
        ELSE [failed |-> FALSE,
              texture |->
                [i.texture EXCEPT
                   !.type = tag,
                   !.next_type = next_tag,
                   !.mask = IF override > 0 THEN Shr(i.mask, override) ELSE i.mask,
                   !.swizzle = swizzle.packed,
                   !.in_reg_swizzle = in_reg_swizzle.packed,
                   !.out_of_order = IF BitAnd(c.quirks, MIDGARD_NO_OOO) = 0
                                    THEN mir_pack_tex_ooo(bs, idx, i) ELSE @,
                   !.out_full = (osz = 32),
                   !.out_upper = (override > 0),
                   !.in_reg_full = (isz = 32),
                   !.sampler_type = sampler.type,
                   !.outmod = i.outmod,
                   !.cont = IF derivatives THEN ~i.helper_terminate ELSE TRUE,
                   !.last = IF derivatives THEN i.helper_terminate \/ i.helper_execute
                            ELSE TRUE]]

texture_word_from_instr(i) ==
    LET src1 == IF i.src[1] = UNUSED THEN REGISTER_UNUSED ELSE SSA_REG_FROM_FIXED(i.src[1])
        dest == IF i.dest = UNUSED THEN REGISTER_UNUSED ELSE SSA_REG_FROM_FIXED(i.dest)
        x == i.swizzle[3][0]
        offset_reg == SSA_REG_FROM_FIXED(i.src[3])
        tex == [i.texture EXCEPT
                  !.op = i.op,
                  !.in_reg_select = src1 % 2,
                  !.out_reg_select = dest % 2,
                  !.bias = IF i.src[2] # UNUSED
                           THEN [select |-> SSA_REG_FROM_FIXED(i.src[2]) % 2,
                                 full |-> 1, component |-> i.swizzle[2][0]]
                           ELSE @]
    IN  IF i.src[3] # UNUSED
        THEN IF ~(x + 2 < 4) THEN [failed |-> TRUE]
             ELSE [failed |-> FALSE,
                   word |-> [tex EXCEPT !.offset =
                               BitOr(BitOr(1, Shl(offset_reg % 2, 1)),
                                     BitOr(Shl(x, 3), BitOr(Shl(x + 1, 5), Shl(x + 2, 7))))]]
        ELSE [failed |-> FALSE, word |-> tex]

emit_texture_bundle(c, bs, idx, b, em, next_tag) ==
    LET i == b.instructions[1]
        written(t) == [b.instructions EXCEPT ![1] = [i EXCEPT !.texture = t]]
        typed == [i.texture EXCEPT !.type = b.tag, !.next_type = next_tag]
        barrier == [typed EXCEPT !.cont = TRUE, !.last = TRUE, !.op = i.op]
    IN  IF i.op = "TEXTURE_OP_BARRIER"
        THEN [failed |-> FALSE, instructions |-> written(barrier),
              emission |-> Append(em, barrier)]
        ELSE Bind(pack_texture(c, bs, idx, i, b.tag, next_tag),
                  LAMBDA packed :
                    IF packed.failed
                    THEN [failed |-> TRUE, instructions |-> written(typed), emission |-> em]
                    ELSE Bind(texture_word_from_instr([i EXCEPT !.texture = packed.texture]),
                              LAMBDA word :
                                IF word.failed
                                THEN [failed |-> TRUE, emission |-> em,
                                      instructions |-> written(packed.texture)]
                                ELSE [failed |-> FALSE,
                                      instructions |-> written(packed.texture),
                                      emission |-> Append(em, word.word)]))

-----------------------------------------------------------------------------
(* emit_binary_bundle *)

AluTags ==
    {TAG_ALU_4, TAG_ALU_8, TAG_ALU_12, TAG_ALU_16,
     TAG_ALU_4 + 4, TAG_ALU_8 + 4, TAG_ALU_12 + 4, TAG_ALU_16 + 4}

\* The buffer and the bundle's instructions after emit_binary_bundle on bundle
\* idx of the block; failed when an assert or unreachable() stops the call
emit_binary_bundle(c, blks, name, bs, idx, em, next_tag) ==
    LET b == bs[idx]
        lookahead == Shl(next_tag, 4)
    IN  IF b.tag \in AluTags THEN emit_alu_bundle(blks, name, b, em, lookahead)
        ELSE IF b.tag = TAG_LOAD_STORE_4 THEN emit_load_store_bundle(b, em, next_tag)
        ELSE IF b.tag \in {TAG_TEXTURE_4, TAG_TEXTURE_4_VTX, TAG_TEXTURE_4_BARRIER}
        THEN emit_texture_bundle(c, bs, idx, b, em, next_tag)
        ELSE [failed |-> TRUE, emission |-> em, instructions |-> b.instructions]

-----------------------------------------------------------------------------
(* The emission of one block: emit_binary_bundle on its bundles in order, on
   one emission buffer *)

MaxPass == 3        \* bundles in the block that is emitted

Identity == [n \in 0 .. 3 |-> [c \in 0 .. 7 |-> c % 4]]
NoSources == Src4(UNUSED, UNUSED, UNUSED, UNUSED)
Float32 == [base |-> "nir_type_float", size |-> 32]
Uint(sz) == [base |-> "nir_type_uint", size |-> sz]

AluInstruction(unit, op, T, mask, inv1, roundmode, hc) ==
    [compact_branch |-> FALSE, unit |-> unit, op |-> op,
     dest_type |-> T, src_types |-> [n \in 0 .. (MIR_SRC_COUNT - 1) |-> T],
     src |-> Src4(SSA_FIXED_REGISTER(0),
                  IF hc THEN UNUSED ELSE SSA_FIXED_REGISTER(1), UNUSED, UNUSED),
     dest |-> SSA_FIXED_REGISTER(2),
     mask |-> mask, swizzle |-> Identity,
     src_abs |-> [n \in 0 .. 1 |-> FALSE], src_neg |-> [n \in 0 .. 1 |-> n = 1],
     src_shift |-> [n \in 0 .. 1 |-> FALSE],
     src_invert |-> [n \in 0 .. 2 |-> inv1 /\ n = 1],
     roundmode |-> roundmode, outmod |-> 0,
     has_inline_constant |-> hc, inline_constant |-> IF hc THEN 4095 ELSE 0]

BranchInstruction(unit, conditional, target) ==
    [compact_branch |-> TRUE, unit |-> unit, writeout |-> FALSE, src |-> NoSources,
     branch |-> [conditional |-> conditional, invert_conditional |-> FALSE,
                 target_type |-> "TARGET_GOTO", target_block |-> target]]

LoadStoreInstruction(op, sz, mask, offset) ==
    [op |-> op, dest_type |-> Uint(sz),
     src_types |-> [n \in 0 .. (MIR_SRC_COUNT - 1) |-> Uint(32)],
     src |-> Src4(IF OP_IS_STORE(op) THEN SSA_FIXED_REGISTER(26) ELSE UNUSED,
                  SSA_FIXED_REGISTER(26), UNUSED, UNUSED),
     dest |-> IF OP_IS_STORE(op) THEN UNUSED ELSE SSA_FIXED_REGISTER(1),
     mask |-> mask, swizzle |-> Identity,
     constants_u32 |-> [n \in 0 .. 3 |-> IF n = 0 THEN offset ELSE 0],
     load_store |-> [mask |-> 0, swizzle |-> 0, varying_parameters |-> 0,
                     address |-> 0, arg_1 |-> 0, arg_2 |-> 0]]

TextureInstruction(op, sz) ==
    [op |-> op, dest_type |-> [base |-> "nir_type_float", size |-> sz],
     src_types |-> [n \in 0 .. (MIR_SRC_COUNT - 1) |-> Float32],
     src |-> Src4(UNUSED, SSA_FIXED_REGISTER(28), UNUSED, UNUSED),
     dest |-> SSA_FIXED_REGISTER(1),
     mask |-> 15, swizzle |-> Identity, outmod |-> 0,
     helper_terminate |-> FALSE, helper_execute |-> TRUE,
     texture |-> [form |-> "midgard_texture_word", type |-> 0, next_type |-> 0,
                  op |-> 0, mask |-> 0, swizzle |-> 0, in_reg_swizzle |-> 0,
                  out_of_order |-> 0, out_full |-> FALSE, out_upper |-> FALSE,
                  in_reg_full |-> FALSE, in_reg_select |-> 0, out_reg_select |-> 0,
                  sampler_type |-> 0, outmod |-> 0, cont |-> FALSE, last |-> FALSE,
                  bias |-> 0, offset |-> 0]]

AluBundle(tag, instructions, padding, constants) ==
    [tag |-> tag, instructions |-> instructions, control |-> Shl(1, 17 + Len(instructions)),
     padding |-> padding, has_embedded_constants |-> constants,
     constants |-> [n \in 0 .. 3 |-> n + 1]]

Bundle(tag, instructions) == [tag |-> tag, instructions |-> instructions]

\* The bundles a block is made of: ALU bundles of vector, scalar and branch
\* instructions with padding and constants, one that an assert stops after its
\* first body, load/store bundles of one and two instructions, a texture and a
\* barrier bundle, and a bundle whose tag the switch does not know
EmitBundles ==
    {AluBundle(TAG_ALU_12,
               <<AluInstruction("UNIT_VMUL", "midgard_alu_op_fadd", Float32, 15, FALSE, 0, FALSE),
                 AluInstruction("UNIT_SADD", "midgard_alu_op_ior", Uint(32), 4, TRUE, 0, TRUE),
                 BranchInstruction("ALU_ENAB_BRANCH", TRUE, 0)>>,
               2, TRUE),
     AluBundle(TAG_ALU_8,
               <<AluInstruction("UNIT_SADD", "midgard_alu_op_iand", Uint(32), 1, TRUE, 0, TRUE),
                 BranchInstruction("ALU_ENAB_BR_COMPACT", FALSE, NumBlocks - 1)>>,
               0, FALSE),
     AluBundle(TAG_ALU_8 + 4,
               <<AluInstruction("UNIT_SMUL", "midgard_alu_op_iadd", Uint(32), 2, FALSE, 0, FALSE),
                 AluInstruction("UNIT_VADD", "midgard_alu_op_f2i_rte", Float32, 3, FALSE, 4, FALSE)>>,
               0, FALSE),
     Bundle(TAG_LOAD_STORE_4,
            <<LoadStoreInstruction("midgard_op_ld_int4", 32, 15, 5)>>),
     Bundle(TAG_LOAD_STORE_4,
            <<LoadStoreInstruction("midgard_op_st_int4", 16, 15, 0),
              LoadStoreInstruction("midgard_op_ld_ubo_int4", 64, 1, 300)>>),
     Bundle(TAG_TEXTURE_4, <<TextureInstruction("TEXTURE_OP_NORMAL", 32)>>),
     Bundle(TAG_TEXTURE_4_BARRIER, <<TextureInstruction("TEXTURE_OP_BARRIER", 32)>>),
     Bundle(1, << >>)}

Contexts == {DefaultContext, [quirks |-> MIDGARD_NO_OOO, stage |-> "MESA_SHADER_VERTEX"]}

\* The next_tag of a call: the tag of the bundle that follows, or 1 for none
NextTags(bs, idx) == {1} \cup {bs[n].tag : n \in {idx + 1} \cap DOMAIN bs}

Init ==
    /\ ctx \in Contexts
    /\ blocks = [n \in BlockNames |-> 1 + (n % MaxQuad)]
    /\ block = 0
    /\ \E n \in 1 .. MaxPass : bundles \in [1 .. n -> EmitBundles]
    /\ bundle = 1
    /\ ins = NoValue
    /\ out = NoValue
    /\ emission = << >>
    /\ pc = "emit"

\* One call of emit_binary_bundle on the next bundle of the block, with a tag
\* among tags; ins keeps the next_tag the call was given
Emit(tags) ==
    /\ pc = "emit"
    /\ bundle <= Len(bundles)
    /\ bundles[bundle].tag \in tags
    /\ \E next_tag \in NextTags(bundles, bundle) :
          \E r \in {emit_binary_bundle(ctx, blocks, block, bundles, bundle, emission, next_tag)} :
              /\ emission' = r.emission
              /\ bundles' = [bundles EXCEPT ![bundle].instructions = r.instructions]
              /\ pc' = IF r.failed THEN "assert" ELSE "emit"
              /\ bundle' = IF r.failed THEN bundle ELSE bundle + 1
              /\ ins' = [next_tag |-> next_tag]
    /\ UNCHANGED <<ctx, blocks, block, out>>

EmitAlu == Emit(AluTags)
EmitLoadStore == Emit({TAG_LOAD_STORE_4})
EmitTexture == Emit({TAG_TEXTURE_4, TAG_TEXTURE_4_VTX, TAG_TEXTURE_4_BARRIER})
\* the default case of the switch: unreachable()
EmitUnknown == Emit((0 .. 15) \ (AluTags \cup {TAG_LOAD_STORE_4, TAG_TEXTURE_4,
                                              TAG_TEXTURE_4_VTX, TAG_TEXTURE_4_BARRIER}))

Next == EmitAlu \/ EmitLoadStore \/ EmitTexture \/ EmitUnknown

Spec == Init /\ [][Next]_vars

-----------------------------------------------------------------------------
(* The encoding of an inline constant: the register word and the two bodies
   that emit_alu_bundle can write for the instruction that holds it *)

\* ins is an instruction with an inline constant, every 16-bit value
InitInline ==
    /\ ctx = DefaultContext
    /\ blocks = << >>
    /\ block = 0
    /\ bundles = << >>
    /\ bundle = [tag |-> TAG_ALU_4]
    /\ out = NoValue
    /\ emission = << >>
    /\ pc = "start"
    /\ \E k \in 0 .. 65535 :
          ins = [AluInstruction("UNIT_SADD", "midgard_alu_op_iadd", Uint(32), 1,
                                FALSE, 0, TRUE)
                   EXCEPT !.inline_constant = k]

\* The register word, then the body as a vector unit gets it and as a scalar
\* unit gets it
EncodeInline ==
    /\ pc = "start"
    /\ \E scalar \in {vector_to_scalar_alu(vector_alu_from_instr(ins), ins)} :
          /\ ~scalar.failed
          /\ out' = [src2_reg |-> reg_info(ins).src2_reg,
                     src2_imm |-> reg_info(ins).src2_imm,
                     vector_src2 |-> vector_alu_from_instr(ins).src2.raw,
                     scalar_src2 |-> scalar.word.src2.imm]
    /\ pc' = "done"
    /\ UNCHANGED <<ctx, blocks, block, bundles, bundle, ins, emission>>

NextInline == EncodeInline

SpecInline == InitInline /\ [][NextInline]_vars

\* The constant read back from the register field and the src2 of a vector body
DecodeVector(reg, src2) ==
    LET imm == src2 \div 4
    IN  reg * 2048 + (imm % 8) * 256 + (imm \div 8)

\* The constant read back from the register field and the src2 of a scalar
\* body, of which the 11 low bits are used
DecodeScalar(reg, src2) ==
    LET imm == src2 % 2048
    IN  reg * 2048 + (imm % 4) * 512 + ((imm \div 4) % 2) * 256
        + ((imm \div 8) % 8) * 32 + ((imm \div 64) % 32)

\* C17: the register field (constant >> 11) together with the immediate of the
\* body determines the 16-bit inline constant, for the vector body and for the
\* scalar body: the constant can be read back from the pair, so no two
\* constants share a pair.
C17_InlineLossless ==
    pc = "done" =>
        /\ out.src2_imm
        /\ out.src2_reg < 32
        /\ DecodeVector(out.src2_reg, out.vector_src2) = ins.inline_constant
        /\ DecodeScalar(out.src2_reg, out.scalar_src2) = ins.inline_constant

\* 0xF8A5: register field 31, bits on both sides of bit 11 and of bit 8
C17_Witness ==
    /\ pc = "done"
    /\ ins.inline_constant = 63653
    /\ out.src2_reg = 31
    /\ out.vector_src2 # 0
    /\ out.scalar_src2 # 0

-----------------------------------------------------------------------------
(* The emission buffer *)

\* before is what the buffer after starts with
IsPrefix(before, after) ==
    /\ Len(after) >= Len(before)
    /\ SubSeq(after, 1, Len(before)) = before

\* C9: across any sequence of emit_binary_bundle calls on one emission buffer,
\* whatever the kinds of the bundles and whether or not an assert stops a call,
\* the buffer only grows: what it held before a call is an unchanged prefix of
\* what it holds after, and its length never decreases.
C9_AppendOnly == [][IsPrefix(emission, emission')]_vars

FormsEmitted == {emission[n].form : n \in DOMAIN emission}

\* Three calls have returned, on an ALU, a load/store and a texture bundle,
\* and the buffer holds what each of them appended
C9_Witness ==
    /\ pc = "emit"
    /\ bundle = 4
    /\ {"control", "midgard_reg_info", "midgard_load_store", "midgard_texture_word"}
          \subseteq FormsEmitted
    /\ emission[1].form = "midgard_texture_word"
    /\ Len(emission) >= 5

-----------------------------------------------------------------------------
(* Properties of emit_alu_bundle, checked under Spec *)

BranchForms == {"midgard_branch_cond", "midgard_branch_uncond", "midgard_branch_extended"}

\* The instructions of a bundle that are not branches, in instruction order
NonBranch(instructions) ==
    SelectSeq(instructions, LAMBDA i : ~midgard_is_branch_unit(i.unit))

\* The register word that belongs to instruction i
RegisterWordOf(i, w) ==
    /\ w.form = "midgard_reg_info"
    /\ w.src2_imm = i.has_inline_constant
    /\ w.src1_reg = SSA_REG_FROM_FIXED(i.src[0])
    /\ w.out_reg = SSA_REG_FROM_FIXED(i.dest)

\* The body that belongs to instruction i, whose opcode after lowering is op
BodyOf(i, op, w) ==
    IF midgard_is_branch_unit(i.unit) THEN w.form \in BranchForms
    ELSE /\ w.form = IF i.unit \in UNITS_ANY_VECTOR THEN "midgard_vector_alu"
                     ELSE "midgard_scalar_alu"
         /\ w.word.op = op

\* new is what a call on ALU bundle b with next_tag appends, the instructions
\* of b being left as after
AluLayout(b, after, next_tag, new) ==
    LET n == Len(b.instructions)
        regs == NonBranch(b.instructions)
        nreg == Len(regs)
        tail == IF b.has_embedded_constants THEN 1 ELSE 0
    IN  /\ Len(new) = 1 + nreg + n + b.padding + tail
        /\ new[1] = [form |-> "control", word |-> BitOr(b.control, next_tag * 16)]
        /\ \A k \in 1 .. nreg : RegisterWordOf(regs[k], new[1 + k])
        /\ \A k \in 1 .. n : BodyOf(b.instructions[k], after[k].op, new[1 + nreg + k])
        /\ \A k \in 1 .. b.padding :
              new[1 + nreg + n + k] = [form |-> "padding", byte |-> 0]
        /\ b.has_embedded_constants =>
              new[Len(new)] = [form |-> "midgard_constants", constants |-> b.constants]
        /\ Cardinality({k \in DOMAIN new : new[k].form = "midgard_reg_info"})
              = Cardinality({k \in 1 .. n : new[1 + nreg + k].form \notin BranchForms})

\* C14: a call of emit_alu_bundle that returns has appended, in this order: the
\* control word (bundle control bits OR next_tag << 4), one register word per
\* non-branch instruction in instruction order, one body per instruction in
\* instruction order (a branch word for a branch-unit instruction, else a
\* vector or scalar ALU word), `padding` zero bytes, and the constants exactly
\* when the bundle has them; there are as many register words as bodies that
\* are not branch words.
C14_AluLayout ==
    [][(/\ pc = "emit"
        /\ pc' = "emit"
        /\ bundle <= Len(bundles)
        /\ bundles[bundle].tag \in AluTags)
          => AluLayout(bundles[bundle], bundles'[bundle].instructions, ins'.next_tag,
                       SubSeq(emission', Len(emission) + 1, Len(emission')))]_vars

\* The three-instruction bundle (vector, scalar with inline constant, extended
\* branch) has been emitted after another bundle: control word, two register
\* words, three bodies, two padding bytes, constants
C14_Witness ==
    /\ pc = "emit"
    /\ bundle = 3
    /\ bundles[2].tag = TAG_ALU_12
    /\ Len(emission) >= 10
    /\ LET new == SubSeq(emission, Len(emission) - 8, Len(emission))
       IN  /\ new[1].form = "control"
           /\ new[2].form = "midgard_reg_info" /\ ~new[2].src2_imm
           /\ new[3].form = "midgard_reg_info" /\ new[3].src2_imm
           /\ new[4].form = "midgard_vector_alu"
           /\ new[5].form = "midgard_scalar_alu" /\ new[5].word.op = "midgard_alu_op_iornot"
           /\ new[6].form = "midgard_branch_extended"
           /\ new[7].form = "padding" /\ new[8].form = "padding"
           /\ new[9].form = "midgard_constants"

=============================================================================
